---- MODULE Spec2Model ----
(***************************************************************************)
(* Umaplay career automation loop.                                         *)
(*                                                                         *)
(* Spec      : AgentCareerLoop.run() with its retry wrapper, the           *)
(*             process-wide abort flag and emergency_stop(), as a state    *)
(*             machine over CareerLoopState                                *)
(*             (src/core/agent_career_loop.py,                             *)
(*              src/core/actions/career_loop_types.py).                    *)
(* SpecState : record_success()/record_error() applied once to an          *)
(*             arbitrary CareerLoopState.                                  *)
(* SpecCycle : one call of _execute_career_cycle(), step by step, with     *)
(*             _check_if_in_career() and _handle_career_completion().      *)
(* SpecSelect: one call of SupportSelectFlow.select_optimal_support()      *)
(*             (src/core/actions/support_select_flow.py).                  *)
(* SpecFind  : _find_optimal_support() applied to one list of cards.       *)
(* SpecMatch : SupportCardInfo.matches_criteria() applied once.            *)
(* SpecCtrl  : screenshot() of the window, ADB and scrcpy+ADB controllers  *)
(*             with the changes of what they capture                       *)
(*             (src/core/controllers).                                     *)
(* SpecAdb   : one call of ADBController._adb_command().                   *)
(* SpecMirror: ScrcpyADBController: the frame stream, its watchdog thread  *)
(*             and the calls of the main thread; SpecMirrorFair adds the   *)
(*             fair scheduling of the watchdog.                            *)
(* SpecInput : click(), hold() and scroll() of the Android controllers,    *)
(*             applied once to arbitrary arguments.                        *)
(* SpecWindow: ScrcpyController._find_window() on one enumeration.         *)
(* SpecDiscover: focus() and screenshot() of a window controller whose     *)
(*             window may be missing.                                      *)
(* SpecSteam : SteamController._find_window() applied once.                *)
(* SpecBoundary: the calls inside one flow boundary, one after another.    *)
(* SpecScan  : SupportSelectFlow._scan_support_cards() applied once.       *)
(* SpecConfirm: AgentCareerLoop._confirm_career_start() applied once.      *)
(* SpecLock  : ScrcpyADBController statement by statement: the main        *)
(*             thread, the watchdog thread and the client's thread with    *)
(*             the client lock and the frame lock.                         *)
(* SpecCount : one attempt of the retry wrapper, up to record_success().   *)
(* SpecResume: the start of run() when a career is in progress.            *)
(* SpecWheel : SteamController.scroll() applied once.                      *)
(***************************************************************************)
EXTENDS Integers, Sequences, FiniteSets, TLC

VARIABLES
    state,            \* self.state : CareerLoopState
    abort,            \* core.utils.abort process-wide flag
    pc,               \* position of the thread executing run()
    exit,             \* how run() left: "none" | "return" | "raise"
    effective_max,    \* run(): effective_max, {} for None, {n} for n
    error_threshold,  \* self.error_threshold
    attempt,          \* _execute_career_cycle_with_recovery: loop variable
    pre,              \* CareerLoopState when the observed call was entered
    calls,            \* what the current wrapper call has invoked so far, in order
    wres,             \* outcome of the last wrapper call: "none" | "true" | "false" | "interrupt" | "raise"
    agentStop,        \* what the agent offered to the last emergency_stop()
    arg,              \* argument of the last record_error() applied on its own
    lastOp,           \* the operation whose step produced this state
    \* one call of _execute_career_cycle()
    cpc,                \* position inside _execute_career_cycle()
    cret,               \* its outcome: "none" | "true" | "false" | "interrupt"
    checkIn,            \* what _check_if_in_career() met on its last call
    checkRet,           \* what that call returned
    setup_screen_count, \* _execute_career_cycle: setup_screen_count
    setupDetected,      \* career_add_friend_support seen on the last setup pass
    navCalls,           \* career_nav.handle_setup_screen() calls of this cycle
    compFrom,           \* which call of _handle_career_completion(): "none" | "pre" | "post"
    clicks_count,       \* _handle_career_completion: clicks_count
    homeSeen,           \* ui_home detected by the current completion call
    compRet,            \* outcome of the last completion call
    agentLog,           \* calls made on the training agent, in order
    \* one call of SupportSelectFlow.select_optimal_support()
    spc,                  \* position inside select_optimal_support()
    sret,                 \* its outcome: "none" | "true" | "false"
    max_refresh_attempts, \* self.max_refresh_attempts
    sattempt,             \* select_optimal_support: attempt
    cards,                \* select_optimal_support: cards, the last scan
    target,               \* the card handed to _select_support_card(), {} for none
    scanCount,            \* calls of _scan_support_cards() so far
    fellBack,             \* the fallback scan of step 3 was made
    allEmpty,             \* every scan so far returned no card
    refreshFailed,        \* a call of _refresh_support_list() returned False
    sawOptimal,           \* a scan produced an optimal match
    clicks,               \* points handed to ctrl.click(), in order
    clickRaised,          \* ctrl.click() raised
    \* one application of a pure function
    inp,                  \* its arguments
    out,                  \* <<result>>, <<>> before the function is applied
    \* one controller and what it captures
    kind,                 \* "window" (ScrcpyController) | "adb" (ADBController) | "scrcpy_adb" (ScrcpyADBController)
    capture_client_only,  \* self.capture_client_only
    last_origin,          \* self._last_origin, <<>> before the first capture
    last_bbox,            \* self._last_bbox, <<>> before the first capture
    screen_size,          \* <<self._screen_width, self._screen_height>>
    envClient,            \* client area of the mirror window on the screen, {} when it cannot be found
    envScreen,            \* size of the desktop screen ("window") or of the device frame
    scrcpy_active,        \* self._scrcpy_active
    last_frame,           \* size of self._last_frame, {} for None
    frame,                \* area covered by the image the last screenshot() returned, <<>> if it raised
    shots,                \* the last screenshot() calls that returned with nothing changing in between
    \* one call of ADBController._adb_command()
    apc,                  \* position inside _adb_command()
    retries,              \* its argument retries
    device,               \* self.device is set
    aattempt,             \* _adb_command: attempt
    alog,                 \* bridge commands run and reconnects made, in order
    aret,                 \* its outcome: "none" | "ok" | "timeout" | "nonzero" | "not_found"
    \* the video stream of ScrcpyADBController and its watchdog thread
    running,              \* self._running
    death_counter,        \* self._death_counter
    has_client,           \* self.client exists
    stale,                \* time.time() - self._last_frame_time > 1.0
    delivering,           \* the client's stream is delivering frames
    wpc,                  \* position of the watchdog thread: "sleep" | "restart" | "exit"
    restarts,             \* restarts of the stream the watchdog has made so far
    frameOld,             \* self._last_frame was delivered before the last (re)start of the stream
    mshot,                \* where the last screenshot() took its image and what the stream was like
    \* the threads of ScrcpyADBController, statement by statement, and its locks
    mpc,                  \* position of the main thread
    fpc,                  \* position of the client's thread inside _on_frame()
    client_lock,          \* the thread that holds self._client_lock, "free" for none
    frame_lock,           \* the thread that holds self._frame_lock, "free" for none
    access,               \* the last access to _last_frame / _last_frame_time or I/O call
    created               \* scrcpy clients created since the controller was built

loopVars == <<state, abort, pc, exit, effective_max, error_threshold, attempt,
              pre, calls, wres, agentStop, arg, lastOp>>

\* loopVars but state and lastOp
loopRest == <<abort, pc, exit, effective_max, error_threshold, attempt,
              pre, calls, wres, agentStop, arg>>

cycleVars == <<cpc, cret, checkIn, checkRet, setup_screen_count, setupDetected,
               navCalls, compFrom, clicks_count, homeSeen, compRet, agentLog>>

selectVars == <<spc, sret, max_refresh_attempts, sattempt, cards, target, scanCount,
                fellBack, allEmpty, refreshFailed, sawOptimal, clicks, clickRaised>>

pureVars == <<inp, out>>

ctrlVars == <<kind, capture_client_only, last_origin, last_bbox, screen_size, envClient,
              envScreen, scrcpy_active, last_frame, frame, shots>>

adbVars == <<apc, retries, device, aattempt, alog, aret>>

mirrorVars == <<running, death_counter, has_client, stale, delivering, wpc, restarts,
                frameOld, mshot>>

lockVars == <<mpc, fpc, client_lock, frame_lock, access, created>>

deviceVars == <<ctrlVars, adbVars, mirrorVars, lockVars>>

vars == <<loopVars, cycleVars, selectVars, pureVars, ctrlVars, adbVars, mirrorVars, lockVars>>

\* what a step of run(), of the other threads or of record_*() leaves alone
otherVars == <<cycleVars, selectVars, pureVars, deviceVars>>

\* what a step of _execute_career_cycle() leaves alone
outsideCycle == <<loopRest, selectVars, pureVars, deviceVars>>

\* what a step of select_optimal_support() leaves alone
outsideSelect == <<state, loopRest, cycleVars, pureVars, deviceVars>>

\* what the application of a pure function leaves alone
outsidePure == <<state, loopRest, cycleVars, selectVars, deviceVars>>

\* what a step on a controller leaves alone
outsideCtrl == <<state, loopRest, cycleVars, selectVars, pureVars, adbVars, mirrorVars,
                 lockVars>>

\* what a step of _adb_command() leaves alone
outsideAdb == <<state, loopRest, cycleVars, selectVars, pureVars, ctrlVars, mirrorVars,
                lockVars>>

\* what a step of the mirroring controller or of its threads leaves alone
outsideDevice == <<state, loopRest, cycleVars, selectVars, pureVars, lockVars>>

----------------------------------------------------------------------------
(* Bounds of the model                                                      *)

MaxCareers == 2
MaxThreshold == 2
MaxErrs == 3

(* Program constants                                                        *)

max_retries == 3
max_setup_screens == 10
max_clicks == 20

None == "None"
Times == {"t1", "t2"}
MsgCycleFailed == "Career cycle failed on attempt 3/3"
MsgCycleException == "Exception during career cycle"
MsgMaxRetries == "Max retries exceeded"
MsgCompletionFailed == "Failed to handle career completion"
MsgInCareerException == "Exception during in-career agent run"
Msgs == {MsgCycleFailed, MsgCycleException, MsgMaxRetries,
         MsgCompletionFailed, MsgInCareerException}

----------------------------------------------------------------------------
(* CareerLoopState                                                          *)

CareerLoopState ==
    [total_careers_completed |-> 0,
     current_career_start_time |-> None,
     last_error |-> None,
     consecutive_errors |-> 0,
     is_running |-> FALSE]

\* record_success that forgets to reset the error counter
record_success_KeepsErrors(s) ==
    [s EXCEPT !.total_careers_completed = @ + 1,
              !.last_error = None,
              !.current_career_start_time = None]

record_success(s) ==
    [s EXCEPT !.total_careers_completed = @ + 1,
              !.consecutive_errors = 0,
              !.last_error = None,
              !.current_career_start_time = None]

\* record_error that counts the error without storing its message
record_error_DropsMessage(s, error) ==
    [s EXCEPT !.consecutive_errors = @ + 1,
              !.current_career_start_time = None]

record_error(s, error) ==
    [s EXCEPT !.consecutive_errors = @ + 1,
              !.last_error = error,
              !.current_career_start_time = None]

----------------------------------------------------------------------------
(* Outcomes of the collaborators, as seen by the orchestrator               *)

\* _check_if_in_career(): what the startup call can do
CheckOutcomes == {"in_career", "not_in_career", "agent_exception",
                  "interrupt_detect", "interrupt_agent"}

\* value returned by _check_if_in_career(), "interrupt" when KeyboardInterrupt leaves it
check_if_in_career_result(oc) ==
    IF oc = "in_career" THEN "true"
    ELSE IF oc \in {"interrupt_detect", "interrupt_agent"} THEN "interrupt"
    ELSE "false"

\* line 1004 precedes agent_scenario.run(): the flag is set on every path that reached the agent
check_if_in_career_state(s, oc) ==
    IF oc \in {"in_career", "agent_exception", "interrupt_agent"}
    THEN [s EXCEPT !.is_running = TRUE]
    ELSE s

\* run(), handling of a career already in progress (try block at 1054-1080)
ExistingOutcomes == {"completed", "completion_failed", "exception", "interrupt"}

existing_career_state(s, oc) ==
    LET r == [s EXCEPT !.is_running = TRUE]
    IN  IF oc = "completed" THEN record_success(r)
        ELSE IF oc = "completion_failed" THEN record_error(r, MsgCompletionFailed)
        ELSE IF oc = "exception" THEN record_error(r, MsgInCareerException)
        ELSE r

\* _execute_career_cycle(): the paths through its body
CyclePaths == {"resumed", "completed_first", "nav_failed", "setup_exceeded",
               "support_failed", "confirm_failed", "completion_failed", "full",
               "exception", "raised", "interrupt"}

execute_career_cycle_result(path) ==
    IF path \in {"resumed", "completed_first", "full"} THEN "true"
    ELSE IF path = "interrupt" THEN "interrupt"
    ELSE IF path = "raised" THEN "raise"
    ELSE "false"

\* whether line 1004 (is_running = True in _check_if_in_career) ran on that path
CycleSetsRunning(path) ==
    IF path = "resumed" THEN {TRUE}
    ELSE IF path = "raised" THEN {FALSE}
    ELSE BOOLEAN

\* a cycle that records its own failure, on top of the wrapper
execute_career_cycle_state_RecordsFailure(s, path, t, ran) ==
    LET s1 == [s EXCEPT !.current_career_start_time = IF path = "raised" THEN @ ELSE t,
                        !.is_running = IF ran THEN TRUE ELSE @]
    IN  IF execute_career_cycle_result(path) = "false"
        THEN record_error(s1, MsgCycleFailed)
        ELSE s1

execute_career_cycle_state(s, path, t, ran) ==
    [s EXCEPT !.current_career_start_time = IF path = "raised" THEN @ ELSE t,
              !.is_running = IF ran THEN TRUE ELSE @]

\* _return_to_main_menu(): every Exception is caught inside, only an interrupt leaves it
RecoveryOutcomes == {"clicked", "not_clicked", "interrupt"}

----------------------------------------------------------------------------
(* Decisions of the orchestrator                                            *)

\* loop head without the error-threshold check
LoopDecision_NoErrorCheck(s, ab, emax, thr) ==
    IF ~s.is_running THEN "not_running"
    ELSE IF ab THEN "abort"
    ELSE IF \E m \in emax : s.total_careers_completed >= m THEN "max"
    ELSE "cycle"

\* loop head without the abort check before the cycle
LoopDecision_NoAbortCheck(s, ab, emax, thr) ==
    IF ~s.is_running THEN "not_running"
    ELSE IF \E m \in emax : s.total_careers_completed >= m THEN "max"
    ELSE IF s.consecutive_errors >= thr THEN "errors"
    ELSE "cycle"

\* run(): the head of the while loop, lines 1097-1121
LoopDecision(s, ab, emax, thr) ==
    IF ~s.is_running THEN "not_running"
    ELSE IF ab THEN "abort"
    ELSE IF \E m \in emax : s.total_careers_completed >= m THEN "max"
    ELSE IF s.consecutive_errors >= thr THEN "errors"
    ELSE "cycle"

\* wrapper that recovers after the last attempt too (attempt < max_retries)
WrapperDecision_RecoversAfterLast(r, a) ==
    IF r = "true" THEN "return_true"
    ELSE IF r = "interrupt" THEN "reraise"
    ELSE IF a < max_retries THEN "recover"
    ELSE "return_false"

\* wrapper whose handler takes KeyboardInterrupt for a failed attempt
WrapperDecision_CatchesInterrupt(r, a) ==
    IF r = "true" THEN "return_true"
    ELSE IF a < max_retries - 1 THEN "recover"
    ELSE "return_false"

\* _execute_career_cycle_with_recovery(): what follows an attempt with result r
\* when the loop variable is a
WrapperDecision(r, a) ==
    IF r = "true" THEN "return_true"
    ELSE IF r = "interrupt" THEN "reraise"
    ELSE IF a < max_retries - 1 THEN "recover"
    ELSE "return_false"

WrapperErrorMsg(r) == IF r = "raise" THEN MsgCycleException ELSE MsgCycleFailed

\* main loop whose handler re-raises the interrupt
RunLoopOnInterrupt_Reraises == "reraise"

\* run(): "except KeyboardInterrupt" around the while loop logs and does not re-raise
RunLoopOnInterrupt == "swallow"

\* run(): "except KeyboardInterrupt: raise" in the existing-career block
RunExistingOnInterrupt == "reraise"

\* emergency_stop(): v is what the training agent offers
AgentStopVariants == {"no_method", "returns", "raises"}

\* emergency_stop that leaves the running flag alone
emergency_stop_state_KeepsRunning(s) == s

emergency_stop_state(s) == [s EXCEPT !.is_running = FALSE]

emergency_stop_abort(ab) == TRUE

\* the agent call at 1207 sits in "try/except Exception" (1206-1212), itself inside
\* the "try/except Exception" of the whole body (1197-1221)
emergency_stop_result(v) ==
    LET called == IF v = "raises" THEN "Exception" ELSE "ok"
        inner == IF called = "Exception" THEN "ok" ELSE called
        outer == IF inner = "Exception" THEN "ok" ELSE inner
    IN  IF outer = "ok" THEN "returned" ELSE "raised"

----------------------------------------------------------------------------
(* Idle values of the parts a specification does not exercise               *)

NoCheck == [detected |-> FALSE, ocr |-> FALSE, text |-> "", fail |-> "none"]

LoopIdle ==
    /\ state = CareerLoopState
    /\ abort = FALSE
    /\ pc = "idle"
    /\ exit = "none"
    /\ effective_max = {}
    /\ error_threshold = 0
    /\ attempt = 0
    /\ pre = CareerLoopState
    /\ calls = <<>>
    /\ wres = "none"
    /\ agentStop = "none"
    /\ arg = None
    /\ lastOp = "Init"

CycleIdle ==
    /\ cpc = "idle"
    /\ cret = "none"
    /\ checkIn = NoCheck
    /\ checkRet = "none"
    /\ setup_screen_count = 0
    /\ setupDetected = FALSE
    /\ navCalls = 0
    /\ compFrom = "none"
    /\ clicks_count = 0
    /\ homeSeen = FALSE
    /\ compRet = "none"
    /\ agentLog = <<>>

SelectIdle ==
    /\ spc = "idle"
    /\ sret = "none"
    /\ max_refresh_attempts = 0
    /\ sattempt = 0
    /\ cards = <<>>
    /\ target = {}
    /\ scanCount = 0
    /\ fellBack = FALSE
    /\ allEmpty = TRUE
    /\ refreshFailed = FALSE
    /\ sawOptimal = FALSE
    /\ clicks = <<>>
    /\ clickRaised = FALSE

PureIdle ==
    /\ inp = "none"
    /\ out = <<>>

CtrlIdle ==
    /\ kind = "none"
    /\ capture_client_only = FALSE
    /\ last_origin = <<>>
    /\ last_bbox = <<>>
    /\ screen_size = <<>>
    /\ envClient = {}
    /\ envScreen = <<>>
    /\ scrcpy_active = FALSE
    /\ last_frame = {}
    /\ frame = <<>>
    /\ shots = <<>>

AdbIdle ==
    /\ apc = "idle"
    /\ retries = 0
    /\ device = FALSE
    /\ aattempt = 0
    /\ alog = <<>>
    /\ aret = "none"

NoShot == [src |-> "none", active |-> FALSE, stale |-> FALSE, frameOld |-> FALSE]

MirrorIdle ==
    /\ running = FALSE
    /\ death_counter = 0
    /\ has_client = FALSE
    /\ stale = FALSE
    /\ delivering = FALSE
    /\ wpc = "idle"
    /\ restarts = 0
    /\ frameOld = FALSE
    /\ mshot = NoShot

NoAccess == [who |-> "none", what |-> "none", holds |-> FALSE]

LockIdle ==
    /\ mpc = "idle"
    /\ fpc = "idle"
    /\ client_lock = "free"
    /\ frame_lock = "free"
    /\ access = NoAccess
    /\ created = 0

DeviceIdle == CtrlIdle /\ AdbIdle /\ MirrorIdle /\ LockIdle

OtherIdle == CycleIdle /\ SelectIdle /\ PureIdle /\ DeviceIdle

----------------------------------------------------------------------------
(* The run() thread                                                         *)

Init ==
    /\ state = CareerLoopState
    /\ abort = FALSE
    /\ pc = "start"
    /\ exit = "none"
    /\ effective_max \in {{}} \cup {{n} : n \in 0..MaxCareers}
    /\ error_threshold \in 0..MaxThreshold
    /\ attempt = 0
    /\ pre = CareerLoopState
    /\ calls = <<>>
    /\ wres = "none"
    /\ agentStop = "none"
    /\ arg = None
    /\ lastOp = "Init"
    /\ OtherIdle

\* run() 1037-1046: the startup call of _check_if_in_career()
CheckIfInCareer ==
    /\ pc = "start"
    /\ \E oc \in CheckOutcomes :
         /\ state' = check_if_in_career_state(state, oc)
         /\ IF check_if_in_career_result(oc) = "true" THEN
                /\ pc' = "existing"
                /\ exit' = exit
            ELSE IF check_if_in_career_result(oc) = "interrupt" THEN
                /\ pc' = "done"
                /\ exit' = "raise"
            ELSE
                /\ pc' = "loop_init"
                /\ exit' = exit
    /\ lastOp' = "CheckIfInCareer"
    /\ UNCHANGED <<abort, effective_max, error_threshold, attempt, pre,
                   calls, wres, agentStop, arg>>
    /\ UNCHANGED otherVars

\* run() 1052-1080: the career found in progress at startup
ExistingCareer ==
    /\ pc = "existing"
    /\ \E oc \in ExistingOutcomes :
         /\ state' = existing_career_state(state, oc)
         /\ IF oc = "interrupt" /\ RunExistingOnInterrupt = "reraise" THEN
                /\ pc' = "done"
                /\ exit' = "raise"
            ELSE
                /\ pc' = "after_existing"
                /\ exit' = exit
    /\ lastOp' = "ExistingCareer"
    /\ UNCHANGED <<abort, effective_max, error_threshold, attempt, pre,
                   calls, wres, agentStop, arg>>
    /\ UNCHANGED otherVars

\* run() 1083-1088
AfterExisting ==
    /\ pc = "after_existing"
    /\ IF abort THEN
           /\ state' = [state EXCEPT !.is_running = FALSE]
           /\ pc' = "done"
           /\ exit' = "return"
       ELSE
           /\ state' = state
           /\ pc' = "loop_init"
           /\ exit' = exit
    /\ lastOp' = "AfterExisting"
    /\ UNCHANGED <<abort, effective_max, error_threshold, attempt, pre,
                   calls, wres, agentStop, arg>>
    /\ UNCHANGED otherVars

\* run() 1091-1094
LoopInit ==
    /\ pc = "loop_init"
    /\ state' = [state EXCEPT !.is_running = TRUE]
    /\ pc' = "loop_head"
    /\ lastOp' = "LoopInit"
    /\ UNCHANGED <<abort, exit, effective_max, error_threshold, attempt, pre,
                   calls, wres, agentStop, arg>>
    /\ UNCHANGED otherVars

\* run() 1097-1133: the loop condition, the three checks, and the call of
\* _execute_career_cycle_with_recovery() (863-865: attempt = 0)
LoopHead ==
    /\ pc = "loop_head"
    /\ state.total_careers_completed <= MaxCareers
    /\ IF LoopDecision(state, abort, effective_max, error_threshold) = "cycle" THEN
           /\ pc' = "attempt"
           /\ attempt' = 0
           /\ pre' = state
           /\ calls' = <<>>
           /\ wres' = "none"
       ELSE
           /\ pc' = "finally"
           /\ UNCHANGED <<attempt, pre, calls, wres>>
    /\ lastOp' = "LoopHead"
    /\ UNCHANGED <<state, abort, exit, effective_max, error_threshold, agentStop, arg>>
    /\ UNCHANGED otherVars

\* _execute_career_cycle_with_recovery() 865-941, one pass of the for loop up to
\* the recovery call: _execute_career_cycle() (650-810) and what the wrapper
\* does with its result; an exception leaving the wrapper would be caught by
\* run() at 1163-1168
Attempt ==
    /\ pc = "attempt"
    /\ \E path \in CyclePaths, t \in Times :
       \E ran \in CycleSetsRunning(path) :
         LET r == execute_career_cycle_result(path)
             s1 == execute_career_cycle_state(state, path, t, ran)
             d == WrapperDecision(r, attempt)
             ev == IF r = "true" THEN "cycle_true"
                   ELSE IF r = "false" THEN "cycle_false"
                   ELSE IF r = "raise" THEN "cycle_raise"
                   ELSE "cycle_interrupt"
         IN  IF d = "return_true" THEN
                 /\ state' = record_success(s1)
                 /\ calls' = calls \o <<ev, "record_success">>
                 /\ wres' = "true"
                 /\ pc' = "after_cycle"
             ELSE IF d = "return_false" THEN
                 /\ state' = record_error(s1, WrapperErrorMsg(r))
                 /\ calls' = calls \o <<ev, "record_error">>
                 /\ wres' = "false"
                 /\ pc' = "after_cycle"
             ELSE IF d = "recover" THEN
                 /\ state' = s1
                 /\ calls' = Append(calls, ev)
                 /\ wres' = wres
                 /\ pc' = "recovery"
             ELSE IF d = "reraise" THEN
                 /\ state' = s1
                 /\ calls' = Append(calls, ev)
                 /\ wres' = "interrupt"
                 /\ pc' = IF RunLoopOnInterrupt = "swallow" THEN "finally" ELSE "raising"
             ELSE
                 /\ state' = s1
                 /\ calls' = Append(calls, ev)
                 /\ wres' = "raise"
                 /\ pc' = "finally"
    /\ lastOp' = "Attempt"
    /\ UNCHANGED <<abort, exit, effective_max, error_threshold, attempt, pre,
                   agentStop, arg>>
    /\ UNCHANGED otherVars

\* _execute_career_cycle_with_recovery() 890-893 and 919-929: _return_to_main_menu()
\* (812-848), the sleep, and the step of the for loop; 939-941 when the loop runs out
Recovery ==
    /\ pc = "recovery"
    /\ \E oc \in RecoveryOutcomes :
         IF oc = "interrupt" THEN
             /\ calls' = Append(calls, "recovery_interrupt")
             /\ wres' = "interrupt"
             /\ pc' = IF RunLoopOnInterrupt = "swallow" THEN "finally" ELSE "raising"
             /\ UNCHANGED <<state, attempt>>
         ELSE IF attempt + 1 < max_retries THEN
             /\ calls' = Append(calls, "recovery")
             /\ attempt' = attempt + 1
             /\ pc' = "attempt"
             /\ UNCHANGED <<state, wres>>
         ELSE
             /\ calls' = calls \o <<"recovery", "record_error">>
             /\ state' = record_error(state, MsgMaxRetries)
             /\ wres' = "false"
             /\ pc' = "after_cycle"
             /\ attempt' = attempt
    /\ lastOp' = "Recovery"
    /\ UNCHANGED <<abort, exit, effective_max, error_threshold, pre, agentStop, arg>>
    /\ UNCHANGED otherVars

\* run() 1136-1158
AfterCycle ==
    /\ pc = "after_cycle"
    /\ pc' = IF abort THEN "finally" ELSE "loop_head"
    /\ lastOp' = "AfterCycle"
    /\ UNCHANGED <<state, abort, exit, effective_max, error_threshold, attempt,
                   pre,
                   calls, wres, agentStop, arg>>
    /\ UNCHANGED otherVars

\* run() 1170-1180; a KeyboardInterrupt that the loop's handler let through
\* would leave run() after the finally block
Finally ==
    /\ pc \in {"finally", "raising"}
    /\ state' = [state EXCEPT !.is_running = FALSE]
    /\ pc' = "done"
    /\ exit' = IF pc = "raising" THEN "raise" ELSE "return"
    /\ lastOp' = "Finally"
    /\ UNCHANGED <<abort, effective_max, error_threshold, attempt, pre,
                   calls, wres, agentStop, arg>>
    /\ UNCHANGED otherVars

----------------------------------------------------------------------------
(* Other threads                                                            *)

\* core.utils.abort.request_abort(), called by the hotkey handler
RequestAbort ==
    /\ pc \notin {"unit", "unit_done"}
    /\ ~abort
    /\ abort' = TRUE
    /\ lastOp' = "RequestAbort"
    /\ UNCHANGED <<state, pc, exit, effective_max, error_threshold, attempt,
                   pre,
                   calls, wres, agentStop, arg>>
    /\ UNCHANGED otherVars

\* emergency_stop() 1182-1221
EmergencyStop ==
    /\ pc \notin {"unit", "unit_done"}
    /\ \E v \in AgentStopVariants :
         /\ state' = emergency_stop_state(state)
         /\ abort' = emergency_stop_abort(abort)
         /\ agentStop' = v
         /\ lastOp' = IF emergency_stop_result(v) = "returned"
                      THEN "EmergencyStop" ELSE "EmergencyStopRaised"
    /\ UNCHANGED <<pc, exit, effective_max, error_threshold, attempt,
                   pre, calls, wres, arg>>
    /\ UNCHANGED otherVars

Next ==
    \/ CheckIfInCareer
    \/ ExistingCareer
    \/ AfterExisting
    \/ LoopInit
    \/ LoopHead
    \/ Attempt
    \/ Recovery
    \/ AfterCycle
    \/ Finally
    \/ RequestAbort
    \/ EmergencyStop

Spec == Init /\ [][Next]_vars

----------------------------------------------------------------------------
(* record_success() and record_error() on their own, from any state         *)

CareerLoopStates ==
    [total_careers_completed : 0..MaxCareers,
     current_career_start_time : {None} \cup Times,
     last_error : {None} \cup Msgs,
     consecutive_errors : 0..MaxErrs,
     is_running : BOOLEAN]

InitState ==
    /\ state \in CareerLoopStates
    /\ abort = FALSE
    /\ pc = "unit"
    /\ exit = "none"
    /\ effective_max = {}
    /\ error_threshold = 0
    /\ attempt = 0
    /\ pre = state
    /\ calls = <<>>
    /\ wres = "none"
    /\ agentStop = "none"
    /\ arg = None
    /\ lastOp = "Init"
    /\ OtherIdle

UnitRecordSuccess ==
    /\ pc = "unit"
    /\ pre' = state
    /\ state' = record_success(state)
    /\ pc' = "unit_done"
    /\ lastOp' = "record_success"
    /\ UNCHANGED <<abort, exit, effective_max, error_threshold, attempt,
                   calls, wres, agentStop, arg>>
    /\ UNCHANGED otherVars

UnitRecordError ==
    /\ pc = "unit"
    /\ \E msg \in Msgs :
         /\ pre' = state
         /\ arg' = msg
         /\ state' = record_error(state, msg)
    /\ pc' = "unit_done"
    /\ lastOp' = "record_error"
    /\ UNCHANGED <<abort, exit, effective_max, error_threshold, attempt,
                   calls, wres, agentStop>>
    /\ UNCHANGED otherVars

NextState ==
    \/ UnitRecordSuccess
    \/ UnitRecordError

SpecState == InitState /\ [][NextState]_vars

----------------------------------------------------------------------------
(* One call of _execute_career_cycle(), step by step                        *)

\* texts the OCR engine can hand back for the career_step region
OcrTexts == {"Career", " career ", "CAREER COMPLETE", "Career Complete!",
             "Training", "Complete", "Skills", ""}

\* str.strip().lower(), line 980
StripLower(t) ==
    CASE t \in {"Career", " career "} -> "career"
      [] t = "CAREER COMPLETE" -> "career complete"
      [] t = "Career Complete!" -> "career complete!"
      [] t = "Training" -> "training"
      [] t = "Complete" -> "complete"
      [] t = "Skills" -> "skills"
      [] OTHER -> t

\* the words among "complete", "career", "training" that occur in t ("in" is case-sensitive)
WordsIn(t) ==
    CASE t = "career" -> {"career"}
      [] t = " career " -> {"career"}
      [] t \in {"career complete", "career complete!"} -> {"career", "complete"}
      [] t = "training" -> {"training"}
      [] t = "complete" -> {"complete"}
      [] OTHER -> {}

\* _check_if_in_career() that tests "career"/"training" before "complete"
career_text_decision_CareerFirst(text) ==
    LET t == StripLower(text)
    IN  IF "career" \in WordsIn(t) \/ "training" \in WordsIn(t) THEN "resume"
        ELSE "not_in_career"

\* _check_if_in_career() 980-1012: what the OCR text decides
career_text_decision(text) ==
    LET t == StripLower(text)
    IN  IF "complete" \in WordsIn(t) THEN "not_in_career"
        ELSE IF "career" \in WordsIn(t) \/ "training" \in WordsIn(t) THEN "resume"
        ELSE "not_in_career"

\* what a call of _check_if_in_career() can meet: the detection, the OCR engine,
\* its text, and where something is raised ("recognize", "ocr", "agent": an
\* Exception there; "interrupt_detect", "interrupt_agent": a KeyboardInterrupt)
CheckInputs ==
    [detected : BOOLEAN, ocr : BOOLEAN, text : OcrTexts,
     fail : {"none", "recognize", "ocr", "agent", "interrupt_detect", "interrupt_agent"}]

\* _check_if_in_career() 953-1019, as one of CheckOutcomes
check_if_in_career(in) ==
    IF in.fail = "interrupt_detect" THEN "interrupt_detect"
    ELSE IF in.fail = "recognize" THEN "not_in_career"
    ELSE IF ~in.detected THEN "not_in_career"
    ELSE IF ~in.ocr THEN "not_in_career"
    ELSE IF in.fail = "ocr" THEN "not_in_career"
    ELSE IF career_text_decision(in.text) = "resume" THEN
        IF in.fail = "agent" THEN "agent_exception"
        ELSE IF in.fail = "interrupt_agent" THEN "interrupt_agent"
        ELSE "in_career"
    ELSE "not_in_career"

\* 1002-1005: _reset_agent_state() and agent_scenario.run() are reached on these outcomes
check_if_in_career_agent(oc) ==
    IF oc \in {"in_career", "agent_exception", "interrupt_agent"}
    THEN <<"reset", "run">>
    ELSE <<>>

\* setup loop of _execute_career_cycle(), 697
setup_loop_continues(count) == count < max_setup_screens

\* 736: the test made after the setup loop
setup_exceeded(count) == count >= max_setup_screens

\* dialog loop of _handle_career_completion() that makes one pass too many
completion_loop_continues_OneMore(count) == count <= max_clicks

\* dialog loop of _handle_career_completion(), 590
completion_loop_continues(count) == count < max_clicks

\* what a step that calls a collaborator can meet
StepOutcomes == {"true", "false", "exception", "interrupt"}

InitCycle ==
    /\ LoopIdle
    /\ CycleIdle
    /\ SelectIdle
    /\ PureIdle
    /\ DeviceIdle

\* a return of _execute_career_cycle() with value r; 804-810 turns an Exception into False
CycleReturns(r) ==
    /\ cpc' = "done"
    /\ cret' = r

\* 665-677: the start time, then _check_if_in_career()
CycleCheck ==
    /\ cpc = "idle"
    /\ \E in \in CheckInputs, t \in Times :
         LET oc == check_if_in_career(in)
             r == check_if_in_career_result(oc)
         IN  /\ checkIn' = in
             /\ checkRet' = r
             /\ state' = check_if_in_career_state(
                            [state EXCEPT !.current_career_start_time = t], oc)
             /\ agentLog' = agentLog \o check_if_in_career_agent(oc)
             /\ IF r = "false" THEN
                    /\ cpc' = "completion_start"
                    /\ cret' = cret
                    /\ compFrom' = "pre"
                ELSE
                    /\ CycleReturns(r)
                    /\ compFrom' = compFrom
    /\ lastOp' = "CycleCheck"
    /\ UNCHANGED <<setup_screen_count, setupDetected, navCalls, clicks_count,
                   homeSeen, compRet>>
    /\ UNCHANGED outsideCycle

\* what follows a return of _handle_career_completion() with value r:
\* 678-681 for the call before navigation, 787-802 for the call after the agent
AfterCompletion(r) ==
    /\ compRet' = r
    /\ IF r = "interrupt" THEN CycleReturns("interrupt")
       ELSE IF r = "true" THEN CycleReturns("true")
       ELSE IF compFrom = "pre" THEN cpc' = "navigate" /\ cret' = cret
       ELSE CycleReturns("false")

\* _handle_career_completion() 551-588: the career_complete and finish clicks
CompletionStart ==
    /\ cpc = "completion_start"
    /\ \E seen \in BOOLEAN, clicked \in BOOLEAN, oc \in {"none", "exception", "interrupt"} :
         IF oc = "interrupt" THEN
             /\ AfterCompletion("interrupt")
             /\ UNCHANGED <<clicks_count, homeSeen>>
         ELSE IF oc = "exception" \/ ~seen \/ ~clicked THEN
             /\ AfterCompletion("false")
             /\ UNCHANGED <<clicks_count, homeSeen>>
         ELSE
             /\ cpc' = "completion_loop"
             /\ clicks_count' = 0
             /\ homeSeen' = FALSE
             /\ UNCHANGED <<cret, compRet>>
    /\ lastOp' = "CompletionStart"
    /\ UNCHANGED <<state, checkIn, checkRet, setup_screen_count, setupDetected,
                   navCalls, compFrom, agentLog>>
    /\ UNCHANGED outsideCycle

\* _handle_career_completion() 590-634: one pass of the dialog loop
CompletionPass ==
    /\ cpc = "completion_loop"
    /\ completion_loop_continues(clicks_count)
    /\ clicks_count' = clicks_count + 1
    /\ \E home \in BOOLEAN, oc \in {"none", "exception", "interrupt"} :
         IF oc = "interrupt" THEN
             /\ AfterCompletion("interrupt")
             /\ homeSeen' = homeSeen
         ELSE IF oc = "exception" THEN
             /\ AfterCompletion("false")
             /\ homeSeen' = homeSeen
         ELSE IF home THEN
             /\ AfterCompletion("true")
             /\ homeSeen' = TRUE
         ELSE
             /\ UNCHANGED <<cpc, cret, compRet, homeSeen>>
    /\ lastOp' = "CompletionPass"
    /\ UNCHANGED <<state, checkIn, checkRet, setup_screen_count, setupDetected,
                   navCalls, compFrom, agentLog>>
    /\ UNCHANGED outsideCycle

\* _handle_career_completion() 636-640: the loop ran out
CompletionCap ==
    /\ cpc = "completion_loop"
    /\ ~completion_loop_continues(clicks_count)
    /\ AfterCompletion("false")
    /\ lastOp' = "CompletionCap"
    /\ UNCHANGED <<state, checkIn, checkRet, setup_screen_count, setupDetected,
                   navCalls, compFrom, clicks_count, homeSeen, agentLog>>
    /\ UNCHANGED outsideCycle

\* a step of _execute_career_cycle() that calls one collaborator and goes on
\* when it returned True (or, for the skip dialog, whatever it returned):
\* navigate_to_career_from_menu 683-685, select_optimal_support 745-747,
\* _confirm_career_start 753-755, _handle_career_start_skip 767-769
FlowStep(here, next, mustSucceed) ==
    /\ cpc = here
    /\ \E oc \in StepOutcomes :
         IF oc = "interrupt" THEN CycleReturns("interrupt")
         ELSE IF oc = "exception" THEN CycleReturns("false")
         ELSE IF oc = "false" /\ mustSucceed THEN CycleReturns("false")
         ELSE cpc' = next /\ cret' = cret
    /\ setup_screen_count' = IF here = "navigate" THEN 0 ELSE setup_screen_count
    /\ navCalls' = IF here = "navigate" THEN 0 ELSE navCalls
    /\ setupDetected' = IF here = "navigate" THEN FALSE ELSE setupDetected
    /\ lastOp' = "FlowStep"
    /\ UNCHANGED <<state, checkIn, checkRet, compFrom, clicks_count, homeSeen,
                   compRet, agentLog>>
    /\ UNCHANGED outsideCycle

\* 697-734: one pass of the setup loop
SetupPass ==
    /\ cpc = "setup"
    /\ setup_loop_continues(setup_screen_count)
    /\ setup_screen_count' = setup_screen_count + 1
    /\ \E detected \in BOOLEAN, oc \in StepOutcomes :
         IF oc = "interrupt" THEN
             /\ CycleReturns("interrupt")
             /\ UNCHANGED <<setupDetected, navCalls>>
         ELSE IF oc = "exception" THEN
             /\ CycleReturns("false")
             /\ UNCHANGED <<setupDetected, navCalls>>
         ELSE IF detected THEN
             /\ setupDetected' = TRUE
             /\ cpc' = "setup_exit"
             /\ UNCHANGED <<cret, navCalls>>
         ELSE
             /\ setupDetected' = FALSE
             /\ navCalls' = navCalls + 1
             /\ UNCHANGED <<cpc, cret>>
    /\ lastOp' = "SetupPass"
    /\ UNCHANGED <<state, checkIn, checkRet, compFrom, clicks_count, homeSeen,
                   compRet, agentLog>>
    /\ UNCHANGED outsideCycle

\* 697: the loop condition fails
SetupLoopEnd ==
    /\ cpc = "setup"
    /\ ~setup_loop_continues(setup_screen_count)
    /\ cpc' = "setup_exit"
    /\ lastOp' = "SetupLoopEnd"
    /\ UNCHANGED <<state, cret, checkIn, checkRet, setup_screen_count, setupDetected,
                   navCalls, compFrom, clicks_count, homeSeen, compRet, agentLog>>
    /\ UNCHANGED outsideCycle

\* 736-744: after the setup loop
SetupExit ==
    /\ cpc = "setup_exit"
    /\ IF setup_exceeded(setup_screen_count)
       THEN CycleReturns("false")
       ELSE cpc' = "support" /\ cret' = cret
    /\ lastOp' = "SetupExit"
    /\ UNCHANGED <<state, checkIn, checkRet, setup_screen_count, setupDetected,
                   navCalls, compFrom, clicks_count, homeSeen, compRet, agentLog>>
    /\ UNCHANGED outsideCycle

\* 773-787: _reset_agent_state(), agent_scenario.run(), then the completion call
RunAgent ==
    /\ cpc = "agent"
    /\ agentLog' = agentLog \o <<"reset", "run">>
    /\ \E oc \in {"returns", "exception", "interrupt"} :
         IF oc = "interrupt" THEN CycleReturns("interrupt") /\ compFrom' = compFrom
         ELSE IF oc = "exception" THEN CycleReturns("false") /\ compFrom' = compFrom
         ELSE cpc' = "completion_start" /\ cret' = cret /\ compFrom' = "post"
    /\ lastOp' = "RunAgent"
    /\ UNCHANGED <<state, checkIn, checkRet, setup_screen_count, setupDetected,
                   navCalls, clicks_count, homeSeen, compRet>>
    /\ UNCHANGED outsideCycle

NextCycle ==
    \/ CycleCheck
    \/ CompletionStart
    \/ CompletionPass
    \/ CompletionCap
    \/ FlowStep("navigate", "setup", TRUE)
    \/ SetupPass
    \/ SetupLoopEnd
    \/ SetupExit
    \/ FlowStep("support", "confirm", TRUE)
    \/ FlowStep("confirm", "skip", TRUE)
    \/ FlowStep("skip", "agent", FALSE)
    \/ RunAgent

SpecCycle == InitCycle /\ [][NextCycle]_vars

----------------------------------------------------------------------------
(* Properties                                                               *)

IsCycle(e) == e \in {"cycle_true", "cycle_false", "cycle_raise", "cycle_interrupt"}
IsFailedCycle(e) == e \in {"cycle_false", "cycle_raise"}
IsRecovery(e) == e \in {"recovery", "recovery_interrupt"}
IsRecord(e) == e \in {"record_success", "record_error"}
IsInterrupt(e) == e \in {"cycle_interrupt", "recovery_interrupt"}
CycleCalls == {i \in DOMAIN calls : IsCycle(calls[i])}
RecoveryCalls == {i \in DOMAIN calls : IsRecovery(calls[i])}
RecordCalls == {i \in DOMAIN calls : IsRecord(calls[i])}

\* C1: a step of the loop head begins a career cycle exactly when none of the
\* three stop conditions holds at the start of the iteration (abort flag set,
\* total_careers_completed >= effective max, consecutive_errors >= error_threshold);
\* otherwise it leaves the loop.
C1_RunStopConditions ==
    [][(pc = "loop_head" /\ pc' # "loop_head") =>
         LET stop == \/ abort
                     \/ \E m \in effective_max : state.total_careers_completed >= m
                     \/ state.consecutive_errors >= error_threshold
         IN  /\ stop => pc' = "finally"
             /\ ~stop => pc' = "attempt"]_vars

C1_Witness ==
    /\ lastOp = "LoopHead"
    /\ pc = "finally"
    /\ ~abort
    /\ state.is_running
    /\ error_threshold = 2
    /\ state.consecutive_errors = 2
    /\ \A m \in effective_max : state.total_careers_completed < m

\* C2: whenever run() has exited, by return or by an exception leaving it,
\* state.is_running is False.
C2_NotRunningOnExit == exit # "none" => ~state.is_running

\* C3: one wrapper call invokes _execute_career_cycle at most 3 times, returns
\* True at the first successful attempt with no attempt after it, returns False
\* only after 3 failed attempts, never lets a non-interrupt exception out, and
\* runs the recovery exactly once between a failed attempt and the next one,
\* never after the last attempt or after a success.
C3_RetryWrapper ==
    /\ Cardinality(CycleCalls) <= 3
    /\ \A i \in CycleCalls :
         calls[i] = "cycle_true" => wres = "true" /\ \A j \in CycleCalls : j <= i
    /\ wres = "true" => \E i \in CycleCalls : calls[i] = "cycle_true"
    /\ wres = "false" =>
         /\ Cardinality(CycleCalls) = 3
         /\ \A i \in CycleCalls : IsFailedCycle(calls[i])
    /\ wres # "raise"
    /\ \A i \in RecoveryCalls :
         /\ i > 1
         /\ IsFailedCycle(calls[i - 1])
         /\ Cardinality({j \in CycleCalls : j < i}) < 3
    /\ \A i \in CycleCalls : i > 1 => calls[i - 1] = "recovery"
    /\ pc = "attempt" /\ calls # <<>> => calls[Len(calls)] = "recovery"

C3_Witness ==
    /\ wres = "false"
    /\ calls = <<"cycle_false", "recovery", "cycle_raise", "recovery",
                 "cycle_false", "record_error">>

\* C4: one wrapper call changes the persistent error state exactly once: while
\* attempts are still being made consecutive_errors and last_error are those of
\* the call's entry; after a False return consecutive_errors is 1 higher and
\* last_error is set; after a True return consecutive_errors is 0, last_error is
\* None and total_careers_completed is 1 higher.
C4_ErrorStateOncePerCall ==
    /\ pc \in {"attempt", "recovery"} =>
         /\ state.consecutive_errors = pre.consecutive_errors
         /\ state.last_error = pre.last_error
         /\ state.total_careers_completed = pre.total_careers_completed
         /\ RecordCalls = {}
    /\ wres = "false" =>
         /\ state.consecutive_errors = pre.consecutive_errors + 1
         /\ state.last_error # None
         /\ state.total_careers_completed = pre.total_careers_completed
         /\ Cardinality(RecordCalls) = 1
    /\ wres = "true" =>
         /\ state.consecutive_errors = 0
         /\ state.last_error = None
         /\ state.total_careers_completed = pre.total_careers_completed + 1
         /\ Cardinality(RecordCalls) = 1

C4_Witness ==
    /\ wres = "true"
    /\ pc = "after_cycle"
    /\ pre.consecutive_errors = 1
    /\ pre.last_error = MsgCycleFailed
    /\ Cardinality(CycleCalls) = 3

\* C5: a KeyboardInterrupt raised in an attempt or in the recovery step leaves
\* the wrapper at once: it is the last thing the call did, no attempt and no
\* recovery follow it, and the call recorded neither an error nor a success.
C5_InterruptLeavesWrapper ==
    \A i \in DOMAIN calls :
      IsInterrupt(calls[i]) =>
        /\ i = Len(calls)
        /\ wres = "interrupt"
        /\ RecordCalls = {}
        /\ pc \notin {"attempt", "recovery", "after_cycle"}

C5_Witness ==
    /\ wres = "interrupt"
    /\ calls = <<"cycle_false", "recovery", "cycle_false", "recovery_interrupt">>

C8_EmergencyStop ==
    /\ lastOp # "EmergencyStopRaised"
    /\ lastOp = "EmergencyStop" => ~state.is_running /\ abort

C8_Witness ==
    /\ lastOp = "EmergencyStop"
    /\ agentStop = "raises"
    /\ pc = "recovery"

\* C9: record_success() from any state gives consecutive_errors = 0,
\* last_error None and current_career_start_time None.
C9_RecordSuccess ==
    lastOp = "record_success" =>
        /\ state.consecutive_errors = 0
        /\ state.last_error = None
        /\ state.current_career_start_time = None

C9_Witness ==
    /\ lastOp = "record_success"
    /\ pre.consecutive_errors = MaxErrs
    /\ pre.last_error = MsgMaxRetries
    /\ pre.current_career_start_time = "t2"

\* C10: record_error(msg) from any state raises consecutive_errors by exactly 1,
\* sets last_error to msg, and leaves total_careers_completed and is_running
\* as they were.
C10_RecordError ==
    lastOp = "record_error" =>
        /\ state.consecutive_errors = pre.consecutive_errors + 1
        /\ state.last_error = arg
        /\ state.total_careers_completed = pre.total_careers_completed
        /\ state.is_running = pre.is_running

C10_Witness ==
    /\ lastOp = "record_error"
    /\ pre.last_error = MsgCycleFailed
    /\ arg = MsgCompletionFailed
    /\ pre.is_running
    /\ pre.total_careers_completed = 2

----------------------------------------------------------------------------
(* Properties of one career cycle                                           *)

\* C11: in the setup loop a pass that detects career_add_friend_support ends
\* the loop and the cycle goes on to support selection, on every pass up to
\* and including the 10th; the cycle fails at setup only when all 10 passes
\* ran without a detection; handle_setup_screen() is called at most 10 times
C11_SetupLoop ==
    /\ navCalls <= max_setup_screens
    /\ (lastOp = "SetupExit" /\ setupDetected => cpc = "support")
    /\ (lastOp = "SetupExit" /\ cpc = "done" =>
            ~setupDetected /\ setup_screen_count = max_setup_screens)

CompletionOps == {"CompletionStart", "CompletionPass", "CompletionCap"}

\* _handle_career_completion() has just returned
CompletionReturned == lastOp \in CompletionOps /\ cpc # "completion_loop"

\* C12: the dialog loop of _handle_career_completion() makes at most 20
\* passes; when ui_home is never detected the call returns False (a
\* KeyboardInterrupt apart, it does not raise); it returns True only if
\* ui_home was detected in one of the passes
C12_CompletionBounded ==
    /\ clicks_count <= max_clicks
    /\ (cpc = "completion_loop" /\ clicks_count = max_clicks => ENABLED CompletionCap)
    /\ (lastOp = "CompletionCap" => compRet = "false")
    /\ (CompletionReturned /\ ~homeSeen => compRet \in {"false", "interrupt"})
    /\ (CompletionReturned /\ compRet = "true" =>
            homeSeen /\ clicks_count \in 1..max_clicks)

C12_Witness ==
    /\ lastOp = "CompletionCap"
    /\ clicks_count = max_clicks
    /\ ~homeSeen
    /\ compRet = "false"

\* the texts that contain "complete", and those that contain "career" or
\* "training", whatever the letter case
SaysComplete == {"CAREER COMPLETE", "Career Complete!", "Complete"}
SaysCareer == {"Career", " career ", "CAREER COMPLETE", "Career Complete!", "Training"}

\* the career_step indicator was detected, the OCR engine was there and read
\* a text that names a career in progress
CareerInProgress ==
    /\ checkIn.detected
    /\ checkIn.ocr
    /\ checkIn.fail \notin {"recognize", "ocr", "interrupt_detect"}
    /\ checkIn.text \notin SaysComplete
    /\ checkIn.text \in SaysCareer

\* C17: _check_if_in_career() resets the agent state, runs the agent and
\* returns True exactly when career_step is detected, OCR is available and
\* the text has no 'complete' but has 'career' or 'training'; a text with
\* 'complete' gives False without the agent; so does every other case
C17_ResumeExactlyWhenInCareer ==
    lastOp = "CycleCheck" =>
        /\ CareerInProgress <=> agentLog = <<"reset", "run">>
        /\ ~CareerInProgress => agentLog = <<>>
        /\ CareerInProgress /\ checkIn.fail = "none" => checkRet = "true"
        /\ checkRet = "true" => CareerInProgress
        /\ ~CareerInProgress /\ checkIn.fail # "interrupt_detect" => checkRet = "false"
        /\ checkIn.fail \in {"none", "agent"} /\ checkIn.detected /\ checkIn.ocr
              /\ checkIn.text \in SaysComplete =>
                 checkRet = "false" /\ agentLog = <<>>

C17_Witness ==
    /\ lastOp = "CycleCheck"
    /\ checkIn.text = "Training"
    /\ checkRet = "true"
    /\ agentLog = <<"reset", "run">>
    /\ state.is_running

C17_WitnessComplete ==
    /\ lastOp = "CycleCheck"
    /\ checkIn.detected /\ checkIn.ocr /\ checkIn.fail = "none"
    /\ checkIn.text = "CAREER COMPLETE"
    /\ checkRet = "false"
    /\ agentLog = <<>>

----------------------------------------------------------------------------
(* SupportSelectFlow (src/core/actions/support_select_flow.py)              *)

MaxRefresh == 2
MaxCards == 2

preferred_support == "Riko Kashimoto"
preferred_level == 50
fuzzy_threshold == 70

\* names the OCR can read from a card and levels it can extract
CardNames == {"Riko Kashimoto", "Riko Kashimato", "Riko Kashi", "Unknown"}
CardLevels == {preferred_level, 49}

\* core.utils.text.fuzzy_ratio(name, preferred_support), in percent: 100 for
\* the identical name, then a near match, a name at the threshold and one
\* just below it
fuzzy_ratio(name, wanted) ==
    IF name = wanted THEN 100
    ELSE IF name = "Riko Kashimato" THEN 93
    ELSE IF name = "Riko Kashi" THEN 70
    ELSE 69

\* bounding box of the i-th container detected by a scan
Slot(i) == <<10, 100 * i, 211, 100 * i + 91>>

SupportCardInfo(i, name, level) == [name |-> name, level |-> level, xyxy |-> Slot(i)]

\* what _scan_support_cards() can return (253-320; [] on any Exception)
CardLists ==
    UNION { { [i \in 1..n |-> SupportCardInfo(i, f[i][1], f[i][2])] :
                f \in [1..n -> CardNames \X CardLevels] } : n \in 0..MaxCards }

\* 495 without the threshold
better_match_NoThreshold(ratio, best_ratio) == ratio > best_ratio

\* _find_optimal_support() 495: the test that replaces best_match
better_match(ratio, best_ratio) == ratio >= fuzzy_threshold /\ ratio > best_ratio

RECURSIVE find_from(_, _, _, _)
\* _find_optimal_support() 478-497: the loop from card i on; best_match is {} for None
find_from(cs, i, best_match, best_ratio) ==
    IF i > Len(cs) THEN best_match
    ELSE LET card == cs[i]
             ratio == fuzzy_ratio(card.name, preferred_support)
         IN  IF card.level # preferred_level THEN find_from(cs, i + 1, best_match, best_ratio)
             ELSE IF better_match(ratio, best_ratio) THEN find_from(cs, i + 1, {card}, ratio)
             ELSE find_from(cs, i + 1, best_match, best_ratio)

\* _find_optimal_support() 448-508
find_optimal_support(cs) ==
    IF cs = <<>> THEN {} ELSE find_from(cs, 1, {}, 0)

\* _select_support_card() 571-573
Center(xyxy) == <<(xyxy[1] + xyxy[3]) \div 2, (xyxy[2] + xyxy[4]) \div 2>>

\* the loop of 129 that stops one attempt early
attempt_in_range_OneLess(a, n) == a < n

\* select_optimal_support() 129: attempt in range(max_refresh_attempts + 1)
attempt_in_range(a, n) == a < n + 1

\* the fallback that takes the last card
top_card_Last(cs) == cs[Len(cs)]

\* select_optimal_support() 200: top_card = cards[0]
top_card(cs) == cs[1]

InitSelect ==
    /\ LoopIdle
    /\ CycleIdle
    /\ PureIdle
    /\ DeviceIdle
    /\ spc = "open"
    /\ sret = "none"
    /\ max_refresh_attempts \in 0..MaxRefresh
    /\ sattempt = 0
    /\ cards = <<>>
    /\ target = {}
    /\ scanCount = 0
    /\ fellBack = FALSE
    /\ allEmpty = TRUE
    /\ refreshFailed = FALSE
    /\ sawOptimal = FALSE
    /\ clicks = <<>>
    /\ clickRaised = FALSE

SelectReturns(r) ==
    /\ spc' = "done"
    /\ sret' = r

\* the for statement of 129: the next attempt, or the end of the loop
LoopGoesOn(a) == IF attempt_in_range(a, max_refresh_attempts) THEN "scan" ELSE "fallback"

\* 123-129: _open_support_popup(), which returns False on any Exception
OpenPopup ==
    /\ spc = "open"
    /\ \E opened \in BOOLEAN :
         IF opened THEN spc' = LoopGoesOn(0) /\ sret' = sret
         ELSE SelectReturns("false")
    /\ lastOp' = "OpenPopup"
    /\ UNCHANGED <<max_refresh_attempts, sattempt, cards, target, scanCount, fellBack,
                   allEmpty, refreshFailed, sawOptimal, clicks, clickRaised>>
    /\ UNCHANGED outsideSelect

\* 137-188: one scan of the loop and what it decides
LoopScan ==
    /\ spc = "scan"
    /\ \E cs \in CardLists :
         LET optimal == find_optimal_support(cs)
             more == sattempt < max_refresh_attempts
         IN  /\ cards' = cs
             /\ allEmpty' = (allEmpty /\ cs = <<>>)
             /\ sawOptimal' = (sawOptimal \/ optimal # {})
             /\ IF cs = <<>> THEN
                    /\ target' = target
                    /\ IF more THEN spc' = "refresh_empty" /\ sret' = sret
                       ELSE SelectReturns("false")
                ELSE IF optimal # {} THEN
                    /\ target' = optimal
                    /\ spc' = "select"
                    /\ sret' = sret
                ELSE
                    /\ target' = target
                    /\ sret' = sret
                    /\ spc' = IF more THEN "refresh" ELSE LoopGoesOn(sattempt + 1)
             /\ sattempt' = IF cs # <<>> /\ optimal = {} /\ ~more
                            THEN sattempt + 1 ELSE sattempt
    /\ scanCount' = scanCount + 1
    /\ lastOp' = "LoopScan"
    /\ UNCHANGED <<max_refresh_attempts, fellBack, refreshFailed, clicks, clickRaised>>
    /\ UNCHANGED outsideSelect

\* 146-152 and 174-182: _refresh_support_list(), False on any Exception;
\* a failed refresh breaks the loop, a good one starts the next attempt
Refresh ==
    /\ spc \in {"refresh_empty", "refresh"}
    /\ \E ok \in BOOLEAN :
         IF ok THEN
             /\ sattempt' = sattempt + 1
             /\ spc' = LoopGoesOn(sattempt + 1)
             /\ refreshFailed' = refreshFailed
         ELSE
             /\ sattempt' = sattempt
             /\ spc' = "fallback"
             /\ refreshFailed' = TRUE
    /\ lastOp' = "Refresh"
    /\ UNCHANGED <<sret, max_refresh_attempts, cards, target, scanCount, fellBack,
                   allEmpty, sawOptimal, clicks, clickRaised>>
    /\ UNCHANGED outsideSelect

\* 190-206: the fallback scan and the choice of the top card
FallbackScan ==
    /\ spc = "fallback"
    /\ \E cs \in CardLists :
         /\ cards' = cs
         /\ allEmpty' = (allEmpty /\ cs = <<>>)
         /\ IF cs = <<>> THEN SelectReturns("false") /\ target' = target
            ELSE spc' = "select" /\ sret' = sret /\ target' = {top_card(cs)}
    /\ scanCount' = scanCount + 1
    /\ fellBack' = TRUE
    /\ lastOp' = "FallbackScan"
    /\ UNCHANGED <<max_refresh_attempts, sattempt, refreshFailed, sawOptimal,
                   clicks, clickRaised>>
    /\ UNCHANGED outsideSelect

\* _select_support_card() 551-590
SelectCard ==
    /\ spc = "select"
    /\ \E card \in target, raised \in BOOLEAN :
         /\ clickRaised' = raised
         /\ clicks' = IF raised THEN clicks ELSE Append(clicks, Center(card.xyxy))
         /\ SelectReturns(IF raised THEN "false" ELSE "true")
    /\ lastOp' = "SelectCard"
    /\ UNCHANGED <<max_refresh_attempts, sattempt, cards, target, scanCount, fellBack,
                   allEmpty, refreshFailed, sawOptimal>>
    /\ UNCHANGED outsideSelect

NextSelect ==
    \/ OpenPopup
    \/ LoopScan
    \/ Refresh
    \/ FallbackScan
    \/ SelectCard

SpecSelect == InitSelect /\ [][NextSelect]_vars

\* _find_optimal_support() applied to one list of cards
InitFind ==
    /\ LoopIdle
    /\ CycleIdle
    /\ SelectIdle
    /\ DeviceIdle
    /\ inp \in CardLists
    /\ out = <<>>

ApplyFind ==
    /\ out = <<>>
    /\ out' = <<find_optimal_support(inp)>>
    /\ lastOp' = "ApplyFind"
    /\ inp' = inp
    /\ UNCHANGED outsidePure

NextFind == ApplyFind

SpecFind == InitFind /\ [][NextFind]_vars

----------------------------------------------------------------------------
(* Properties of SupportSelectFlow                                          *)

\* select_optimal_support() has returned after the popup opened, every scan
\* found no card and no refresh failed
AllScansEmpty ==
    /\ spc = "done"
    /\ scanCount >= 1
    /\ allEmpty
    /\ ~refreshFailed

\* C13 as stated: with max_refresh_attempts = N, every scan empty and every
\* refresh good, N+1 scans are made before falling back, and the flow fails
\* only after the fallback scan has returned no card as well
C13_FallbackScanBeforeFailure ==
    AllScansEmpty /\ sret = "false" =>
        /\ fellBack
        /\ scanCount = (max_refresh_attempts + 1) + 1

\* C13: with max_refresh_attempts = N, every scan empty and every refresh
\* good, exactly N+1 scans are made and the flow then returns False at once,
\* without a fallback scan and without a click; a fallback scan is made only
\* after a scan with cards or a failed refresh
C13_ScansThenFails ==
    /\ (allEmpty /\ ~refreshFailed => scanCount <= max_refresh_attempts + 1)
    /\ (AllScansEmpty =>
            /\ scanCount = max_refresh_attempts + 1
            /\ ~fellBack
            /\ sret = "false"
            /\ clicks = <<>>)
    /\ (fellBack => refreshFailed \/ ~allEmpty \/ scanCount < max_refresh_attempts + 1)

C13_Witness ==
    /\ AllScansEmpty
    /\ max_refresh_attempts = MaxRefresh
    /\ scanCount = MaxRefresh + 1
    /\ sret = "false"

\* card c is an exact-level card of cs with a name ratio of at least 0.70
\* that no exact-level card of cs exceeds
IsOptimalIn(c, cs) ==
    /\ c.level = preferred_level
    /\ fuzzy_ratio(c.name, preferred_support) >= fuzzy_threshold
    /\ \A j \in 1..Len(cs) :
          cs[j].level = preferred_level =>
              fuzzy_ratio(cs[j].name, preferred_support)
                  <= fuzzy_ratio(c.name, preferred_support)

\* C14: when the popup opened and no scan of the loop produced an optimal
\* match, the flow clicks the center of the first card of the scanned list
\* and returns True; it returns False then only if the final scan has no
\* card (or ctrl.click() raised); no card other than the optimal match or
\* that first card is ever clicked
C14_FallbackTopCard ==
    spc = "done" =>
        /\ Len(clicks) <= 1
        /\ clicks # <<>> =>
              \E i \in 1..Len(cards) :
                  /\ clicks[1] = Center(cards[i].xyxy)
                  /\ IF fellBack THEN i = 1 ELSE IsOptimalIn(cards[i], cards)
        /\ scanCount >= 1 /\ ~sawOptimal /\ cards # <<>> /\ ~clickRaised =>
              /\ sret = "true"
              /\ fellBack
              /\ clicks = <<Center(cards[1].xyxy)>>
        /\ scanCount >= 1 /\ ~sawOptimal /\ sret = "false" /\ ~clickRaised =>
              cards = <<>>

C14_Witness ==
    /\ spc = "done"
    /\ ~sawOptimal
    /\ fellBack
    /\ Len(cards) = 2
    /\ sret = "true"
    /\ clicks = <<Center(Slot(1))>>

\* C15: _find_optimal_support() returns None for the empty list and when no
\* card has the preferred level with a name ratio of at least 0.70; otherwise
\* it returns a card of the list with the preferred level whose ratio is the
\* largest among the exact-level cards; never another level or a ratio
\* below 0.70
C15_FindOptimal ==
    lastOp = "ApplyFind" =>
        LET qualifying == {i \in 1..Len(inp) :
                             /\ inp[i].level = preferred_level
                             /\ fuzzy_ratio(inp[i].name, preferred_support) >= fuzzy_threshold}
        IN  /\ inp = <<>> => out[1] = {}
            /\ qualifying = {} <=> out[1] = {}
            /\ Cardinality(out[1]) <= 1
            /\ \A c \in out[1] :
                  /\ \E i \in 1..Len(inp) : inp[i] = c
                  /\ IsOptimalIn(c, inp)

C15_Witness ==
    /\ lastOp = "ApplyFind"
    /\ Len(inp) = 2
    /\ inp[1].name = "Riko Kashimato" /\ inp[1].level = preferred_level
    /\ inp[2].name = preferred_support /\ inp[2].level = preferred_level
    /\ out = <<{inp[2]}>>

C15_WitnessNone ==
    /\ lastOp = "ApplyFind"
    /\ Len(inp) = 2
    /\ inp[1].name = preferred_support /\ inp[1].level # preferred_level
    /\ inp[2].name = "Unknown" /\ inp[2].level = preferred_level
    /\ out = <<{}>>

----------------------------------------------------------------------------
(* SupportCardInfo.matches_criteria (src/core/actions/career_loop_types.py) *)

MaxNameLen == 2

\* characters of a name: two letters in both cases, and one that has no case
NameChars == {"r", "R", "i", "I", "-"}

NameStrings == UNION { [1..n -> NameChars] : n \in 0..MaxNameLen }

\* str.lower() on one character
LowerChar(c) ==
    CASE c = "R" -> "r"
      [] c = "I" -> "i"
      [] OTHER -> c

\* str.lower()
lower(s) == [i \in 1..Len(s) |-> LowerChar(s[i])]

\* matches_criteria() that compares the names as they are
matches_criteria_CaseSensitive(card, target_name, target_level) ==
    card.level = target_level /\ card.name = target_name

\* SupportCardInfo.matches_criteria() 71-74
matches_criteria(card, target_name, target_level) ==
    card.level = target_level /\ lower(card.name) = lower(target_name)

InitMatch ==
    /\ LoopIdle
    /\ CycleIdle
    /\ SelectIdle
    /\ DeviceIdle
    /\ inp \in [name : NameStrings, level : CardLevels,
                target_name : NameStrings, target_level : CardLevels]
    /\ out = <<>>

ApplyMatch ==
    /\ out = <<>>
    /\ out' = <<matches_criteria([name |-> inp.name, level |-> inp.level],
                                 inp.target_name, inp.target_level)>>
    /\ lastOp' = "ApplyMatch"
    /\ inp' = inp
    /\ UNCHANGED outsidePure

NextMatch == ApplyMatch

SpecMatch == InitMatch /\ [][NextMatch]_vars

\* the other case of a letter; a character without case is left alone
SwapCase(c) ==
    CASE c = "r" -> "R"
      [] c = "R" -> "r"
      [] c = "i" -> "I"
      [] c = "I" -> "i"
      [] OTHER -> c

\* the strings that differ from s in letter case only
CaseVariants(s) ==
    {t \in [1..Len(s) -> NameChars] : \A i \in 1..Len(s) : t[i] \in {s[i], SwapCase(s[i])}}

\* C16: matches_criteria() gives the same answer whatever the letter case of
\* the card's name and of the target name, and is True only when the card's
\* level equals the target level
C16_CaseInsensitiveExactLevel ==
    lastOp = "ApplyMatch" =>
        /\ out[1] => inp.level = inp.target_level
        /\ \A n \in CaseVariants(inp.name), t \in CaseVariants(inp.target_name) :
              matches_criteria([name |-> n, level |-> inp.level], t, inp.target_level)
                  = out[1]
        /\ out[1] <=> (inp.level = inp.target_level
                          /\ inp.target_name \in CaseVariants(inp.name))

C16_Witness ==
    /\ lastOp = "ApplyMatch"
    /\ inp.name = <<"R", "i">>
    /\ inp.target_name = <<"r", "I">>
    /\ inp.level = inp.target_level
    /\ out = <<TRUE>>

C16_WitnessLevel ==
    /\ lastOp = "ApplyMatch"
    /\ inp.name = inp.target_name
    /\ inp.name # <<>>
    /\ inp.level # inp.target_level
    /\ out = <<FALSE>>

----------------------------------------------------------------------------
(* screenshot() of the controllers (src/core/controllers)                   *)

\* the region argument: {} for None, {<<left, top, width, height>>}
RegionArgs == {{}, {<<10, 20, 30, 40>>}, {<<0, 0, 100, 80>>}}

\* what _client_bbox_screen_xywh() can return, {} for None
ClientAreas == {{}, {<<5, 5, 50, 40>>}, {<<20, 10, 50, 40>>}}

\* <<width, height>> of the desktop screen or of the device frame
ScreenSizes == {<<100, 80>>, <<80, 100>>}

\* the box handed to ImageGrab.grab(bbox=...) or img.crop(...) for a region
XYXY(r) == <<r[1], r[2], r[1] + r[3], r[2] + r[4]>>

\* the area covered by the image that grab() or crop() returns for box b
Grabbed(b) == <<b[1], b[2], b[3] - b[1], b[4] - b[2]>>

\* _last_bbox that keeps the corners of the box
region_bbox_AsXYXY(r) == XYXY(r)

\* android.py 220, 228, adb.py 340, scrcpy_adb.py 442
region_bbox(r) == <<r[1], r[2], r[3], r[4]>>

\* android.py 219, 227, adb.py 339, scrcpy_adb.py 441
region_origin(r) == <<r[1], r[2]>>

\* ScrcpyController.screenshot() 216-235 for a capture that succeeds:
\* client is what _client_bbox_screen_xywh() returned, scr the screen size
window_capture(region, cco, client, scr) ==
    IF region # {} THEN
        LET r == CHOOSE x \in region : TRUE
        IN  [path |-> "region", origin |-> region_origin(r), bbox |-> region_bbox(r),
             frame |-> Grabbed(XYXY(r))]
    ELSE IF cco /\ client # {} THEN
        LET r == CHOOSE x \in client : TRUE
        IN  [path |-> "client", origin |-> region_origin(r), bbox |-> region_bbox(r),
             frame |-> Grabbed(XYXY(r))]
    ELSE
        [path |-> "full", origin |-> <<0, 0>>, bbox |-> <<0, 0, scr[1], scr[2]>>,
         frame |-> <<0, 0, scr[1], scr[2]>>]

\* a device capture that reports the size stored before this capture
device_capture_StaleSize(size, region, img) ==
    IF region # {} THEN
        LET r == CHOOSE x \in region : TRUE
        IN  [path |-> "region", origin |-> region_origin(r), bbox |-> region_bbox(r),
             frame |-> Grabbed(XYXY(r)), size |-> img]
    ELSE
        [path |-> "full", origin |-> <<0, 0>>, bbox |-> <<0, 0, size[1], size[2]>>,
         frame |-> <<0, 0, img[1], img[2]>>, size |-> img]

\* ADBController.screenshot() 333-345 and ScrcpyADBController.screenshot()
\* 434-447 once the image img is there; size is the stored screen size
device_capture(size, region, img) ==
    IF region # {} THEN
        LET r == CHOOSE x \in region : TRUE
        IN  [path |-> "region", origin |-> region_origin(r), bbox |-> region_bbox(r),
             frame |-> Grabbed(XYXY(r)), size |-> img]
    ELSE
        [path |-> "full", origin |-> <<0, 0>>, bbox |-> <<0, 0, img[1], img[2]>>,
         frame |-> <<0, 0, img[1], img[2]>>, size |-> img]

InitCtrl ==
    /\ LoopIdle
    /\ CycleIdle
    /\ SelectIdle
    /\ PureIdle
    /\ AdbIdle
    /\ MirrorIdle
    /\ LockIdle
    /\ kind \in {"window", "adb", "scrcpy_adb"}
    /\ capture_client_only \in (IF kind = "window" THEN BOOLEAN ELSE {FALSE})
    /\ last_origin = <<>>
    /\ last_bbox = <<>>
    /\ envScreen \in ScreenSizes
    /\ screen_size \in (IF kind = "window" THEN {<<>>} ELSE ScreenSizes)
    /\ envClient \in (IF kind = "window" THEN ClientAreas ELSE {{}})
    /\ scrcpy_active \in (IF kind = "scrcpy_adb" THEN BOOLEAN ELSE {FALSE})
    /\ last_frame = {}
    /\ frame = <<>>
    /\ shots = <<>>

\* the last two calls that returned
Remember(how, region, img) ==
    LET rec == [region |-> region, path |-> how.path, img |-> img,
                origin |-> how.origin, bbox |-> how.bbox]
    IN  IF Len(shots) = 2 THEN <<shots[2], rec>> ELSE Append(shots, rec)

\* ScrcpyController.screenshot(), android.py 210-235; grabbed: ImageGrab.grab() returned
ScreenshotWindow(region, grabbed) ==
    LET how == window_capture(region, capture_client_only, envClient, envScreen)
    IN  /\ kind = "window"
        /\ IF grabbed \/ how.path # "full"
           THEN last_origin' = how.origin /\ last_bbox' = how.bbox
           ELSE UNCHANGED <<last_origin, last_bbox>>
        /\ frame' = IF grabbed THEN how.frame ELSE <<>>
        /\ shots' = IF grabbed THEN Remember(how, region, envScreen) ELSE <<>>
        /\ UNCHANGED screen_size

\* ADBController.screenshot(), adb.py 327-345, and ScrcpyADBController.screenshot(),
\* scrcpy_adb.py 402-447; grabbed: the bridge delivered a screen capture
ScreenshotDevice(region, grabbed) ==
    LET fast == kind = "scrcpy_adb" /\ scrcpy_active /\ last_frame # {}
        img == IF fast THEN CHOOSE f \in last_frame : TRUE ELSE envScreen
        how == device_capture(screen_size, region, img)
    IN  /\ kind \in {"adb", "scrcpy_adb"}
        /\ IF fast \/ grabbed THEN
               /\ last_origin' = how.origin
               /\ last_bbox' = how.bbox
               /\ screen_size' = how.size
               /\ frame' = how.frame
               /\ shots' = Remember(how, region, img)
           ELSE
               /\ UNCHANGED <<last_origin, last_bbox, screen_size>>
               /\ frame' = <<>>
               /\ shots' = <<>>

Screenshot ==
    /\ \E region \in RegionArgs, grabbed \in BOOLEAN :
         \/ ScreenshotWindow(region, grabbed)
         \/ ScreenshotDevice(region, grabbed)
    /\ lastOp' = "Screenshot"
    /\ UNCHANGED <<kind, capture_client_only, envClient, envScreen, scrcpy_active, last_frame>>
    /\ UNCHANGED outsideCtrl

\* the mirror window is moved, hidden or shown
MoveWindow ==
    /\ kind = "window"
    /\ envClient' \in ClientAreas \ {envClient}
    /\ shots' = <<>>
    /\ lastOp' = "MoveWindow"
    /\ UNCHANGED <<kind, capture_client_only, last_origin, last_bbox, screen_size,
                   envScreen, scrcpy_active, last_frame, frame>>
    /\ UNCHANGED outsideCtrl

\* the screen or the device changes its orientation
Rotate ==
    /\ kind # "none"
    /\ envScreen' = <<envScreen[2], envScreen[1]>>
    /\ shots' = <<>>
    /\ lastOp' = "Rotate"
    /\ UNCHANGED <<kind, capture_client_only, last_origin, last_bbox, screen_size,
                   envClient, scrcpy_active, last_frame, frame>>
    /\ UNCHANGED outsideCtrl

\* ScrcpyADBController._on_frame(), scrcpy_adb.py 124-128
OnFrame ==
    /\ kind = "scrcpy_adb"
    /\ scrcpy_active
    /\ last_frame' = {envScreen}
    /\ shots' = <<>>
    /\ lastOp' = "OnFrame"
    /\ UNCHANGED <<kind, capture_client_only, last_origin, last_bbox, screen_size,
                   envClient, envScreen, scrcpy_active, frame>>
    /\ UNCHANGED outsideCtrl

\* the stream starts (_init_scrcpy 160) or the watchdog declares it frozen (183)
StreamSwitch ==
    /\ kind = "scrcpy_adb"
    /\ scrcpy_active' = ~scrcpy_active
    /\ shots' = <<>>
    /\ lastOp' = "StreamSwitch"
    /\ UNCHANGED <<kind, capture_client_only, last_origin, last_bbox, screen_size,
                   envClient, envScreen, last_frame, frame>>
    /\ UNCHANGED outsideCtrl

NextCtrl ==
    \/ Screenshot
    \/ MoveWindow
    \/ Rotate
    \/ OnFrame
    \/ StreamSwitch

SpecCtrl == InitCtrl /\ [][NextCtrl]_vars

\* C18: in every controller a screenshot() that returns has set _last_origin
\* and _last_bbox to the area of the returned frame: the region when one was
\* given, the client area when that was captured, else (0,0) and (0,0,W,H) of
\* the full screen or device frame; no image is returned without both set
C18_LastBoxIsFrameArea ==
    lastOp = "Screenshot" /\ frame # <<>> =>
        LET shot == shots[Len(shots)]
        IN  /\ last_origin = <<frame[1], frame[2]>>
            /\ last_bbox = frame
            /\ shot.region # {} =>
                  /\ shot.path = "region"
                  /\ {last_bbox} = shot.region
            /\ shot.region = {} /\ kind = "window" /\ capture_client_only /\ envClient # {} =>
                  /\ shot.path = "client"
                  /\ {last_bbox} = envClient
            /\ shot.path = "full" =>
                  /\ last_origin = <<0, 0>>
                  /\ last_bbox = <<0, 0, shot.img[1], shot.img[2]>>
            /\ shot.path = "client" => shot.region = {} /\ kind = "window"

C18_Witness ==
    /\ lastOp = "Screenshot"
    /\ kind = "adb"
    /\ frame = <<10, 20, 30, 40>>
    /\ last_origin = <<10, 20>>
    /\ last_bbox = <<10, 20, 30, 40>>

C18_WitnessClient ==
    /\ lastOp = "Screenshot"
    /\ kind = "window"
    /\ frame # <<>>
    /\ {last_bbox} = envClient

C18_WitnessFull ==
    /\ lastOp = "Screenshot"
    /\ kind = "scrcpy_adb"
    /\ frame # <<>>
    /\ last_bbox = <<0, 0, 80, 100>>

\* C19: two screenshot() calls in a row on one controller with the same
\* region argument leave the same _last_origin/_last_bbox pair
C19_SameRegionSameBox ==
    Len(shots) = 2 /\ shots[1].region = shots[2].region =>
        /\ shots[1].origin = shots[2].origin
        /\ shots[1].bbox = shots[2].bbox
        /\ last_origin = shots[2].origin
        /\ last_bbox = shots[2].bbox

C19_Witness ==
    /\ Len(shots) = 2
    /\ kind = "adb"
    /\ shots[1].region = {}
    /\ shots[2].region = {}
    /\ shots[1].bbox = shots[2].bbox
    /\ last_bbox = <<0, 0, envScreen[1], envScreen[2]>>

C19_WitnessWindow ==
    /\ Len(shots) = 2
    /\ kind = "window"
    /\ shots[1].region = {}
    /\ shots[2].region = {}
    /\ shots[2].path = "client"

----------------------------------------------------------------------------
(* ADBController._adb_command (src/core/controllers/adb.py)                 *)

MaxRetries == 2

\* what subprocess.run() of the bridge command can do
RunOutcomes == {"ok", "nonzero", "timeout", "not_found"}

\* what _auto_connect_device() 133-158 can do; it never raises an Exception
ConnectOutcomes == {"listing_failed", "listed", "not_host_port", "connected", "connect_failed"}

\* a budget of one attempt more
attempts_OneMore(r) == r + 2

\* adb.py 101: attempts = max(1, int(retries) + 1)
attempts(r) == IF r + 1 > 1 THEN r + 1 ELSE 1

\* a policy that retries a non-zero exit code as it retries a timeout
retried_AnyFailure(oc, a, n) == oc \in {"timeout", "nonzero"} /\ a < n - 1

\* adb.py 116-121: the outcome of attempt a of n after which the loop continues
retried(oc, a, n) == oc = "timeout" /\ a < n - 1

InitAdb ==
    /\ LoopIdle
    /\ CycleIdle
    /\ SelectIdle
    /\ PureIdle
    /\ CtrlIdle
    /\ MirrorIdle
    /\ LockIdle
    /\ apc = "run"
    /\ retries \in 0..MaxRetries
    /\ device \in BOOLEAN
    /\ aattempt = 0
    /\ alog = <<>>
    /\ aret = "none"

\* adb.py 103-129: one pass of the loop up to the outcome of subprocess.run()
AdbRun ==
    /\ apc = "run"
    /\ aattempt < attempts(retries)
    /\ \E oc \in RunOutcomes :
         /\ alog' = Append(alog, <<"run", oc>>)
         /\ IF retried(oc, aattempt, attempts(retries)) THEN
                /\ apc' = IF device THEN "reconnect" ELSE "sleep"
                /\ aret' = aret
            ELSE
                /\ apc' = "done"
                /\ aret' = oc
    /\ lastOp' = "AdbRun"
    /\ UNCHANGED <<retries, device, aattempt>>
    /\ UNCHANGED outsideAdb

\* adb.py 118-119: the reconnect after a timeout
AdbReconnect ==
    /\ apc = "reconnect"
    /\ \E oc \in ConnectOutcomes : alog' = Append(alog, <<"reconnect", oc>>)
    /\ apc' = "sleep"
    /\ lastOp' = "AdbReconnect"
    /\ UNCHANGED <<retries, device, aattempt, aret>>
    /\ UNCHANGED outsideAdb

\* adb.py 120-121: the delay, then the next pass
AdbRetry ==
    /\ apc = "sleep"
    /\ aattempt' = aattempt + 1
    /\ apc' = "run"
    /\ lastOp' = "AdbRetry"
    /\ UNCHANGED <<retries, device, alog, aret>>
    /\ UNCHANGED outsideAdb

NextAdb ==
    \/ AdbRun
    \/ AdbReconnect
    \/ AdbRetry

SpecAdb == InitAdb /\ [][NextAdb]_vars

RunsAt == {i \in 1..Len(alog) : alog[i][1] = "run"}
ReconnectsAt == {i \in 1..Len(alog) : alog[i][1] = "reconnect"}
TimeoutAt(i) == alog[i] = <<"run", "timeout">>

\* C20: with retries = r the bridge command is run at most r+1 times; every
\* timeout but one on the last attempt is followed by a reconnect (when a
\* device is configured) and a retry; a timeout on the last attempt is a hard
\* error; a result with exit code 0 is returned with no further attempt
C20_BoundedRetry ==
    /\ Cardinality(RunsAt) <= retries + 1
    /\ \A i \in RunsAt :
          /\ TimeoutAt(i) /\ i < Len(alog) =>
                IF device
                THEN alog[i + 1][1] = "reconnect"
                     /\ (i + 1 < Len(alog) => alog[i + 2][1] = "run")
                ELSE alog[i + 1][1] = "run"
          /\ ~TimeoutAt(i) => i = Len(alog) /\ apc = "done" /\ aret = alog[i][2]
    /\ \A i \in ReconnectsAt : device /\ i > 1 /\ TimeoutAt(i - 1)
    /\ apc = "done" /\ alog # <<>> /\ TimeoutAt(Len(alog)) =>
          aret = "timeout" /\ Cardinality(RunsAt) = retries + 1
    /\ apc = "done" => alog # <<>> /\ alog[Len(alog)][1] = "run" /\ aret = alog[Len(alog)][2]
    /\ apc # "done" /\ alog # <<>> =>
          Cardinality(RunsAt) < retries + 1 /\ (\A i \in RunsAt : TimeoutAt(i))

C20_Witness ==
    /\ apc = "done"
    /\ retries = 2
    /\ device
    /\ Cardinality(RunsAt) = 3
    /\ Cardinality(ReconnectsAt) = 2
    /\ aret = "timeout"

C20_WitnessOk ==
    /\ apc = "done"
    /\ retries = 2
    /\ alog = <<<<"run", "timeout">>, <<"run", "ok">>>>
    /\ aret = "ok"

\* C21 as stated: a bridge command that returns a non-zero exit code is
\* retried with reconnection like one that times out, and raised as a hard
\* error only when the attempts are used up
C21_NonzeroRetried ==
    apc = "done" /\ aret = "nonzero" => Cardinality(RunsAt) = retries + 1

\* C21: a bridge command that returns a non-zero exit code is raised as a
\* hard error at once, on whatever attempt, with no reconnect and no retry
\* after it; only a timeout is retried
C21_NonzeroRaisedAtOnce ==
    \A i \in RunsAt :
        /\ alog[i][2] = "nonzero" => i = Len(alog) /\ apc = "done" /\ aret = "nonzero"
        /\ i < Len(alog) => TimeoutAt(i)

C21_Witness ==
    /\ apc = "done"
    /\ retries = MaxRetries
    /\ device
    /\ alog = <<<<"run", "nonzero">>>>
    /\ aret = "nonzero"

----------------------------------------------------------------------------
(* ScrcpyADBController: the mirrored stream, its watchdog and the bridge    *)
(* commands (src/core/controllers/scrcpy_adb.py)                            *)

MaxRestarts == 2

\* adb.py 93: the retries ADBController._adb_command makes by default
default_retries == 2

\* _init_scrcpy() 136-168 while self._running: the old client is stopped
\* (stopOk: client.stop() did not raise), then a new one is started
\* (startOk: nothing raised up to line 164)
init_scrcpy(counter, client, stopOk, startOk) ==
    LET afterStop == IF client /\ stopOk THEN 0 ELSE counter
    IN  [death_counter |-> IF startOk THEN 0 ELSE afterStop,
         scrcpy_active |-> startOk,
         has_client |-> client \/ startOk]

\* the controller after __init__ (27-66): one _init_scrcpy(), the watchdog thread started
InitMirror ==
    /\ LoopIdle
    /\ CycleIdle
    /\ SelectIdle
    /\ PureIdle
    /\ kind = "scrcpy_adb"
    /\ capture_client_only = FALSE
    /\ last_origin = <<>>
    /\ last_bbox = <<>>
    /\ envScreen = <<100, 80>>
    /\ screen_size = envScreen
    /\ envClient = {}
    /\ last_frame = {}
    /\ frame = <<>>
    /\ shots = <<>>
    /\ apc = "idle"
    /\ retries = 0
    /\ device \in BOOLEAN
    /\ aattempt = 0
    /\ alog = <<>>
    /\ aret = "none"
    /\ running = TRUE
    /\ \E startOk \in BOOLEAN :
         LET r == init_scrcpy(0, FALSE, TRUE, startOk)
         IN  /\ death_counter = r.death_counter
             /\ scrcpy_active = r.scrcpy_active
             /\ has_client = r.has_client
    /\ delivering \in (IF scrcpy_active THEN BOOLEAN ELSE {FALSE})
    /\ stale = FALSE
    /\ wpc = "sleep"
    /\ restarts = 0
    /\ frameOld = FALSE
    /\ mshot = NoShot
    /\ LockIdle

\* screenshot() 402-447 on the main thread
MirrorScreenshot ==
    /\ running
    /\ \E region \in RegionArgs, grabbed \in BOOLEAN :
         /\ ScreenshotDevice(region, grabbed)
         /\ mshot' = [src |-> IF scrcpy_active /\ last_frame # {} THEN "buffer"
                              ELSE IF grabbed THEN "bridge" ELSE "raised",
                      active |-> scrcpy_active, stale |-> stale, frameOld |-> frameOld]
    /\ lastOp' = "MirrorScreenshot"
    /\ UNCHANGED <<kind, capture_client_only, envClient, envScreen, scrcpy_active, last_frame>>
    /\ UNCHANGED <<running, death_counter, has_client, stale, delivering, wpc, restarts,
                   frameOld>>
    /\ UNCHANGED adbVars
    /\ UNCHANGED outsideDevice

\* _adb_command() 190-218 on the main thread: one run of the bridge command
MirrorAdbCommand ==
    /\ running
    /\ \E oc \in RunOutcomes :
         /\ alog' = <<<<"run", oc>>>>
         /\ aret' = oc
    /\ apc' = "done"
    /\ lastOp' = "MirrorAdbCommand"
    /\ UNCHANGED <<retries, device, aattempt>>
    /\ UNCHANGED <<ctrlVars, mirrorVars>>
    /\ UNCHANGED outsideDevice

\* _on_frame() 124-128 on the client's thread
MirrorOnFrame ==
    /\ delivering
    /\ last_frame' = {envScreen}
    /\ stale' = FALSE
    /\ frameOld' = FALSE
    /\ lastOp' = "MirrorOnFrame"
    /\ UNCHANGED <<kind, capture_client_only, last_origin, last_bbox, screen_size,
                   envClient, envScreen, scrcpy_active, frame, shots>>
    /\ UNCHANGED <<running, death_counter, has_client, delivering, wpc, restarts, mshot>>
    /\ UNCHANGED adbVars
    /\ UNCHANGED outsideDevice

\* more than a second passes without a frame
Tick ==
    /\ running
    /\ ~stale
    /\ stale' = TRUE
    /\ lastOp' = "Tick"
    /\ UNCHANGED <<running, death_counter, has_client, delivering, wpc, restarts,
                   frameOld, mshot>>
    /\ UNCHANGED <<ctrlVars, adbVars>>
    /\ UNCHANGED outsideDevice

\* the device stops sending, or the client's thread ends
StreamDies ==
    /\ delivering
    /\ delivering' = FALSE
    /\ lastOp' = "StreamDies"
    /\ UNCHANGED <<running, death_counter, has_client, stale, wpc, restarts, frameOld, mshot>>
    /\ UNCHANGED <<ctrlVars, adbVars>>
    /\ UNCHANGED outsideDevice

\* _watchdog_loop() 173-183: a pass that finds the stream frozen
WatchdogCheck ==
    /\ wpc = "sleep"
    /\ running
    /\ scrcpy_active
    /\ stale
    /\ restarts < MaxRestarts
    /\ scrcpy_active' = FALSE
    /\ wpc' = "restart"
    /\ lastOp' = "WatchdogCheck"
    /\ UNCHANGED <<kind, capture_client_only, last_origin, last_bbox, screen_size,
                   envClient, envScreen, last_frame, frame, shots>>
    /\ UNCHANGED <<running, death_counter, has_client, stale, delivering, restarts,
                   frameOld, mshot>>
    /\ UNCHANGED adbVars
    /\ UNCHANGED outsideDevice

\* _watchdog_loop() 184-185: _init_scrcpy(), then the counter
WatchdogRestart ==
    /\ wpc = "restart"
    /\ IF ~running THEN
           /\ death_counter' = death_counter + 1
           /\ UNCHANGED <<scrcpy_active, has_client, stale, delivering, frameOld>>
       ELSE
           \E stopOk \in BOOLEAN, startOk \in BOOLEAN, streams \in BOOLEAN :
              LET r == init_scrcpy(death_counter, has_client, stopOk, startOk)
              IN  /\ death_counter' = r.death_counter + 1
                  /\ scrcpy_active' = r.scrcpy_active
                  /\ has_client' = r.has_client
                  /\ stale' = IF startOk THEN FALSE ELSE stale
                  /\ delivering' = IF startOk THEN streams
                                   ELSE IF has_client /\ stopOk THEN FALSE ELSE delivering
                  /\ frameOld' = IF startOk THEN last_frame # {} ELSE frameOld
    /\ restarts' = restarts + 1
    /\ wpc' = "sleep"
    /\ lastOp' = "WatchdogRestart"
    /\ UNCHANGED <<kind, capture_client_only, last_origin, last_bbox, screen_size,
                   envClient, envScreen, last_frame, frame, shots>>
    /\ UNCHANGED <<running, mshot>>
    /\ UNCHANGED adbVars
    /\ UNCHANGED outsideDevice

\* _watchdog_loop() 173: the loop ends once the controller is stopped
WatchdogExit ==
    /\ wpc = "sleep"
    /\ ~running
    /\ wpc' = "exit"
    /\ lastOp' = "WatchdogExit"
    /\ UNCHANGED <<running, death_counter, has_client, stale, delivering, restarts,
                   frameOld, mshot>>
    /\ UNCHANGED <<ctrlVars, adbVars>>
    /\ UNCHANGED outsideDevice

\* stop() 69-86 on the main thread
MirrorStop ==
    /\ running
    /\ running' = FALSE
    /\ scrcpy_active' = FALSE
    /\ \E stopOk \in BOOLEAN : delivering' = IF has_client /\ stopOk THEN FALSE ELSE delivering
    /\ lastOp' = "MirrorStop"
    /\ UNCHANGED <<kind, capture_client_only, last_origin, last_bbox, screen_size,
                   envClient, envScreen, last_frame, frame, shots>>
    /\ UNCHANGED <<death_counter, has_client, stale, wpc, restarts, frameOld, mshot>>
    /\ UNCHANGED adbVars
    /\ UNCHANGED outsideDevice

NextMirror ==
    \/ MirrorScreenshot
    \/ MirrorAdbCommand
    \/ MirrorOnFrame
    \/ Tick
    \/ StreamDies
    \/ WatchdogCheck
    \/ WatchdogRestart
    \/ WatchdogExit
    \/ MirrorStop

SpecMirror == InitMirror /\ [][NextMirror]_vars

\* the watchdog thread and the clock are scheduled fairly
SpecMirrorFair ==
    /\ SpecMirror
    /\ WF_vars(WatchdogCheck)
    /\ WF_vars(WatchdogRestart)
    /\ WF_vars(WatchdogExit)
    /\ WF_vars(Tick)

\* C22: ScrcpyADBController keeps the failure policy of ADBController: a
\* bridge command that times out is retried up to the fixed count, with a
\* reconnect before each retry, and only then raised
C22_MirrorRetriesLikeBridge ==
    lastOp = "MirrorAdbCommand" /\ apc = "done" /\ aret = "timeout" =>
        /\ Cardinality(RunsAt) = attempts(default_retries)
        /\ device => Cardinality(ReconnectsAt) = default_retries

\* C24: screenshot() returns the buffered frame only while the stream is
\* live; when the stream is stale or dead, also right after a watchdog
\* restart and before the new stream has delivered a frame, it falls back to
\* the bridge screenshot
C24_BufferOnlyWhileLive ==
    lastOp = "MirrorScreenshot" /\ mshot.src = "buffer" =>
        /\ mshot.active
        /\ ~mshot.stale
        /\ ~mshot.frameOld

\* C25: _death_counter equals the number of restarts of the stream the
\* watchdog has made so far
C25_CounterCountsRestarts ==
    death_counter = restarts

\* the stream is dead or frozen for good: nothing but a restart brings frames back
StreamDown == ~scrcpy_active \/ (stale /\ ~delivering)

\* C26: while the controller is running, from any state in which the stream
\* is stale or dead, also after a restart that failed to start a client, the
\* watchdog eventually attempts another restart
C26_WatchdogSelfHeals ==
    \A n \in 0..(MaxRestarts - 1) :
        (running /\ StreamDown /\ restarts = n) ~> (restarts > n \/ ~running)

----------------------------------------------------------------------------
(* Coordinates sent to the device: click(), hold() and scroll() of          *)
(* ADBController (adb.py) and ScrcpyADBController (scrcpy_adb.py)           *)

\* _screen_width / _screen_height; 0 stands for a size that is not known
ScreenDims == {0, 1, 15, 40}

\* the coordinates a caller passes, some of them off the screen
Coords == {-3, 0, 14, 39, 45}

\* the values of the jitter argument
Jitters == {0, 2, 6}

\* some of what random.randint(-jitter, jitter) returns
JitterDraws(jitter) == {0 - jitter, 0, jitter}

\* the delta argument of scroll(), and the height of an xyxy box
Deltas == {-100, -10, 0, 10, 100}

\* scroll() 244: min_px
min_px == 30

\* scroll() 250: max_pixels_ratio, in hundredths
max_pixels_ratio == 35

Max2(a, b) == IF a >= b THEN a ELSE b

Min2(a, b) == IF a <= b THEN a ELSE b

Abs(a) == IF a < 0 THEN 0 - a ELSE a

clamp_UpToSize(v, size) == Max2(0, Min2(size, v))

\* click() 367-368, hold() 404-405, scroll() 300-303: max(0, min(size - 1, v))
clamp(v, size) == Max2(0, Min2(size - 1, v))

\* scroll() 270-271: _clamp_y
clamp_y(y, height) == Max2(10, Min2(height - 10, y))

\* click() 361-373 and hold() 399-413: the point of the tap, or of the swipe
\* that starts and ends in one place
tap_point(W, H, x, y, jx, jy) ==
    LET tx == x + jx
        ty == y + jy
    IN  IF W # 0 /\ H # 0 THEN <<clamp(tx, W), clamp(ty, H)>> ELSE <<tx, ty>>

\* scroll() 252-322: the two ends of the swipe of one step; the hold that
\* follows stays on the second end. No swipe when the size is not known
swipe_points(W, H, cx, cy, span, scroll_down, jx, j0, j1) ==
    IF ~(W # 0 /\ H # 0) THEN {}
    ELSE LET max_pixels_allowed == Max2(min_px, (H * max_pixels_ratio) \div 100)
             pixels  == Min2(Max2(min_px, span), max_pixels_allowed)
             half    == pixels \div 2
             y_start == IF scroll_down THEN clamp_y(cy + half, H) ELSE clamp_y(cy - half, H)
             y_end   == IF scroll_down THEN clamp_y(cy - half, H) ELSE clamp_y(cy + half, H)
             xj      == cx + jx
             y0j     == y_start + j0
             y1j     == y_end + j1
         IN  {<<clamp(xj, W), clamp(y0j, H)>>, <<clamp(xj, W), clamp(y1j, H)>>}

\* the calls: a tap or a hold at (x, y); a scroll by a delta, from the centre
\* of the screen; a scroll over a box, from the centre of the box
InputCalls ==
    [op : {"click", "hold"}, x : Coords, y : Coords, jitter : Jitters]
        \cup [op : {"scroll"}, delta : Deltas, invert : BOOLEAN, jitter : Jitters]
        \cup [op : {"scroll_xyxy"}, x : Coords, y : Coords, delta : Deltas,
              default_down : BOOLEAN, invert : BOOLEAN, jitter : Jitters]

InitInput ==
    /\ LoopIdle
    /\ CycleIdle
    /\ SelectIdle
    /\ CtrlIdle
    /\ AdbIdle
    /\ MirrorIdle
    /\ LockIdle
    /\ inp \in InputCalls
    /\ out = <<>>

\* click() 350-377 and hold() 393-414
ApplyTap ==
    /\ out = <<>>
    /\ inp.op \in {"click", "hold"}
    /\ \E W \in ScreenDims, H \in ScreenDims :
       \E jx \in JitterDraws(inp.jitter), jy \in JitterDraws(inp.jitter) :
          out' = <<[W |-> W, H |-> H, sent |-> {tap_point(W, H, inp.x, inp.y, jx, jy)}]>>
    /\ lastOp' = "ApplyTap"
    /\ inp' = inp
    /\ UNCHANGED outsidePure

\* scroll() 237-326
ApplyScroll ==
    /\ out = <<>>
    /\ inp.op \in {"scroll", "scroll_xyxy"}
    /\ \E W \in ScreenDims, H \in ScreenDims :
       \E jx \in JitterDraws(inp.jitter), j0 \in JitterDraws(inp.jitter),
          j1 \in JitterDraws(inp.jitter) :
          LET use_xyxy == inp.op = "scroll_xyxy"
              cx   == IF use_xyxy THEN inp.x ELSE W \div 2
              cy   == IF use_xyxy THEN inp.y ELSE H \div 2
              down == IF use_xyxy THEN inp.default_down ELSE inp.delta < 0
              scroll_down == IF inp.invert THEN ~down ELSE down
          IN  out' = <<[W |-> W, H |-> H,
                        sent |-> swipe_points(W, H, cx, cy, Abs(inp.delta), scroll_down,
                                              jx, j0, j1)]>>
    /\ lastOp' = "ApplyScroll"
    /\ inp' = inp
    /\ UNCHANGED outsidePure

NextInput == ApplyTap \/ ApplyScroll

SpecInput == InitInput /\ [][NextInput]_vars

\* C23: whenever the screen size W x H is known, every coordinate sent to the
\* device is on the screen: the tap of click(), the point of hold() and both
\* ends of the swipe of scroll() have 0 <= X <= W-1 and 0 <= Y <= H-1
C23_SentInsideScreen ==
    lastOp \in {"ApplyTap", "ApplyScroll"} /\ out[1].W # 0 /\ out[1].H # 0 =>
        \A p \in out[1].sent :
            /\ 0 <= p[1] /\ p[1] <= out[1].W - 1
            /\ 0 <= p[2] /\ p[2] <= out[1].H - 1

\* a tap asked beyond the right and bottom edges lands on the last pixel
C23_Witness ==
    /\ lastOp = "ApplyTap"
    /\ inp.x = 45 /\ inp.y = 45
    /\ out[1].W = 40 /\ out[1].H = 15
    /\ out[1].sent = {<<39, 14>>}

\* a tap asked left of and above the screen lands on the first pixel
C23_WitnessLow ==
    /\ lastOp = "ApplyTap"
    /\ inp.op = "hold"
    /\ inp.x = -3 /\ inp.y = -3
    /\ out[1].W # 0 /\ out[1].H # 0
    /\ out[1].sent = {<<0, 0>>}

\* a scroll on a screen smaller than the margins of _clamp_y still swipes on the screen
C23_WitnessScroll ==
    /\ lastOp = "ApplyScroll"
    /\ out[1].W = 15 /\ out[1].H = 15
    /\ Cardinality(out[1].sent) = 2
    /\ \E p \in out[1].sent : p[2] = 14

----------------------------------------------------------------------------
(* Window lookup of ScrcpyController (android.py, window_utils.py), where   *)
(* pygetwindow is not installed and window_utils enumerates by itself       *)

\* the most windows an enumeration lists
MaxWindows == 2

\* ScrcpyController.window_title
window_title == <<"R", "i">>

\* the literal "scrcpy" of android.py 95, 103 and 111
scrcpy_name == <<"s", "c", "r", "c", "p", "y">>

\* titles: none, the target, the target with a space after it, one that
\* holds the target in another case, an unrelated one
WinTitles == {<<>>, <<"R", "i">>, <<"R", "i", " ">>, <<"-", "r", "I">>, <<"-">>}

\* window classes: none, the target, scrcpy's own, an unrelated one
WinClasses == {<<>>, <<"R", "i">>, scrcpy_name, <<"-">>}

\* a window: its title, its WM_CLASS, and whether the name of the process
\* that owns it holds "scrcpy"
Windows == [title : WinTitles, wm_class : WinClasses, scrcpy_proc : BOOLEAN]

\* get_all_windows(): the windows in the order the desktop lists them
Enumerations == UNION { [1..n -> Windows] : n \in 0..MaxWindows }

RECURSIVE lstrip(_)
\* str.lstrip()
lstrip(s) == IF s # <<>> /\ Head(s) = " " THEN lstrip(Tail(s)) ELSE s

RECURSIVE rstrip(_)
\* str.rstrip()
rstrip(s) == IF s # <<>> /\ s[Len(s)] = " " THEN rstrip(SubSeq(s, 1, Len(s) - 1)) ELSE s

\* str.strip()
strip(s) == rstrip(lstrip(s))

\* t in s
contains(s, t) == \E i \in 0..(Len(s) - Len(t)) : SubSeq(s, i + 1, i + Len(t)) = t

\* [i for i in 1..len(wins) if keep(i)], in the order of wins
Matching(wins, keep(_)) == SelectSeq([i \in 1..Len(wins) |-> i], keep)

\* seq[0] if seq else None; a window is named by its place in the enumeration, 0 is None
FirstOf(seq) == IF seq # <<>> THEN seq[1] ELSE 0

\* get_windows_with_title() 291-310
get_windows_with_title(wins, title) ==
    LET is_exact(i) == strip(wins[i].title) = title \/ strip(wins[i].wm_class) = title
        is_sub(i)   == \/ contains(lower(wins[i].title), lower(title))
                       \/ contains(lower(wins[i].wm_class), lower(title))
        exact       == Matching(wins, is_exact)
    IN  IF exact # <<>> THEN exact ELSE Matching(wins, is_sub)

\* _get_windows_by_process_name() 327-346
windows_by_process_name(wins) ==
    LET owned(i) == wins[i].scrcpy_proc
    IN  Matching(wins, owned)

\* find_window() 313-324
find_window(wins, title) ==
    LET with_title == get_windows_with_title(wins, title)
    IN  IF with_title # <<>> THEN with_title[1] ELSE FirstOf(windows_by_process_name(wins))

\* find_window_by_process_name() 389-478
find_window_by_process_name(wins) == FirstOf(windows_by_process_name(wins))

\* ScrcpyController._find_window() 55-115
scrcpy_find_window(wins) ==
    LET win_list         == get_windows_with_title(wins, window_title)
        is_exact(i)      == strip(wins[i].title) = window_title
        is_wmcls(i)      == strip(wins[i].wm_class) = window_title
        is_sub(i)        == contains(lower(wins[i].title), lower(window_title))
        is_scr_cls(i)    == strip(lower(wins[i].wm_class)) = scrcpy_name
        exact            == Matching(wins, is_exact)
        wmcls_exact      == Matching(wins, is_wmcls)
        sub              == Matching(wins, is_sub)
        scr_cls          == Matching(wins, is_scr_cls)
    IN  IF win_list # <<>> THEN win_list[1]
        ELSE IF exact # <<>> THEN exact[1]
        ELSE IF wmcls_exact # <<>> THEN wmcls_exact[1]
        ELSE IF sub # <<>> THEN sub[1]
        ELSE IF scr_cls # <<>> THEN scr_cls[1]
        ELSE IF find_window(wins, scrcpy_name) # 0 THEN find_window(wins, scrcpy_name)
        ELSE find_window_by_process_name(wins)

InitWindow ==
    /\ LoopIdle
    /\ CycleIdle
    /\ SelectIdle
    /\ CtrlIdle
    /\ AdbIdle
    /\ MirrorIdle
    /\ LockIdle
    /\ inp \in [wins : Enumerations]
    /\ out = <<>>

ApplyFindWindow ==
    /\ out = <<>>
    /\ out' = <<scrcpy_find_window(inp.wins)>>
    /\ lastOp' = "ApplyFindWindow"
    /\ inp' = inp
    /\ UNCHANGED outsidePure

NextWindow == ApplyFindWindow

SpecWindow == InitWindow /\ [][NextWindow]_vars

\* the matching policy: the first window of the first set that is not empty,
\* the sets taken in the order (1) title equal to the target, (2) class equal
\* to the target, (3) title holding the target whatever the letter case,
\* (4) class equal to the short name of the process, (5) owned by the process
PolicyWindow(wins) ==
    LET by_title(i)   == strip(wins[i].title) = window_title
        by_class(i)   == strip(wins[i].wm_class) = window_title
        by_sub(i)     == contains(lower(wins[i].title), lower(window_title))
        by_proc_cls(i) == strip(lower(wins[i].wm_class)) = scrcpy_name
        by_proc(i)    == wins[i].scrcpy_proc
        ranked        == <<Matching(wins, by_title), Matching(wins, by_class),
                           Matching(wins, by_sub), Matching(wins, by_proc_cls),
                           Matching(wins, by_proc)>>
        hits          == {k \in 1..5 : ranked[k] # <<>>}
    IN  IF hits = {} THEN 0
        ELSE ranked[CHOOSE k \in hits : \A j \in hits : k <= j][1]

\* C27: _find_window() returns the first window of the first non-empty set of
\* the matching policy, None when all are empty; a window whose title is the
\* target is returned before one that matches by class or by substring only,
\* in whatever order the desktop lists them
C27_PolicyOrder ==
    lastOp = "ApplyFindWindow" => out[1] = PolicyWindow(inp.wins)

----------------------------------------------------------------------------
(* A window that cannot be found: focus() and screenshot() of the           *)
(* desktop-window controllers (steam.py, android.py)                        *)

\* the calls on the window that focus() makes and that can raise
FocusCalls == {"ShowWindow", "restore", "foreground", "minimize", "restore_again", "activate"}

\* focus() without the try that wraps its body
focus_Unguarded(found, minimized, has_win32, fails) ==
    IF ~found THEN "False"
    ELSE IF minimized /\ has_win32 /\ "ShowWindow" \in fails THEN "raise"
    ELSE IF "foreground" \in fails /\ ({"minimize", "restore_again"} \cap fails) # {}
         THEN "raise"
    ELSE "True"

\* focus() steam.py 82-123, android.py 123-163; found: _find_window() gave a window
focus(found, minimized, has_win32, fails) ==
    IF ~found THEN "False"
    ELSE IF minimized /\ has_win32 /\ "ShowWindow" \in fails THEN "False"
    ELSE IF "foreground" \in fails /\ ({"minimize", "restore_again"} \cap fails) # {}
         THEN "False"
    ELSE "True"

\* a window controller, and the desktop with or without its window
InitDiscover ==
    /\ LoopIdle
    /\ CycleIdle
    /\ SelectIdle
    /\ AdbIdle
    /\ MirrorIdle
    /\ LockIdle
    /\ inp \in [found : BOOLEAN, minimized : BOOLEAN, has_win32 : BOOLEAN,
                fails : SUBSET FocusCalls]
    /\ out = <<>>
    /\ kind = "window"
    /\ capture_client_only \in BOOLEAN
    /\ last_origin = <<>>
    /\ last_bbox = <<>>
    /\ envScreen \in ScreenSizes
    /\ screen_size = <<>>
    /\ envClient \in (IF inp.found THEN ClientAreas ELSE {{}})
    /\ scrcpy_active = FALSE
    /\ last_frame = {}
    /\ frame = <<>>
    /\ shots = <<>>

\* focus()
Focus ==
    /\ out' = <<focus(inp.found, inp.minimized, inp.has_win32, inp.fails)>>
    /\ lastOp' = "Focus"
    /\ inp' = inp
    /\ UNCHANGED outsidePure

\* ScrcpyController.screenshot() android.py 210-235; _client_bbox_screen_xywh()
\* 167-206 gave envClient, None when _get_hwnd() found no window
ScreenshotDiscover ==
    /\ \E region \in RegionArgs, grabbed \in BOOLEAN : ScreenshotWindow(region, grabbed)
    /\ lastOp' = "ScreenshotDiscover"
    /\ UNCHANGED <<kind, capture_client_only, envClient, envScreen, scrcpy_active, last_frame>>
    /\ UNCHANGED outsideCtrl

\* the window is closed
CloseWindow ==
    /\ inp.found
    /\ inp' = [inp EXCEPT !.found = FALSE]
    /\ envClient' = {}
    /\ shots' = <<>>
    /\ lastOp' = "CloseWindow"
    /\ UNCHANGED <<kind, capture_client_only, last_origin, last_bbox, screen_size,
                   envScreen, scrcpy_active, last_frame, frame>>
    /\ UNCHANGED <<state, loopRest, cycleVars, selectVars, out, adbVars, mirrorVars,
                   lockVars>>

NextDiscover ==
    \/ Focus
    \/ ScreenshotDiscover
    \/ CloseWindow

SpecDiscover == InitDiscover /\ [][NextDiscover]_vars

\* C28: a window that cannot be found never makes the desktop-window
\* controllers raise: focus() returns True or False, and False when no window
\* matches; screenshot() without a region, when the client area cannot be
\* resolved, returns the full screen with _last_origin = (0,0)
C28_DiscoveryFailureNeverRaises ==
    /\ lastOp = "Focus" =>
          /\ out[1] \in {"True", "False"}
          /\ ~inp.found => out[1] = "False"
    /\ lastOp = "ScreenshotDiscover" /\ frame # <<>> =>
          LET last == shots[Len(shots)]
          IN  last.region = {} /\ envClient = {} =>
                 /\ last.path = "full"
                 /\ last_origin = <<0, 0>>
                 /\ last_bbox = <<0, 0, envScreen[1], envScreen[2]>>
                 /\ frame = last_bbox

\* the window was closed, the next screenshot of the client area is one of the full screen
C28_Witness ==
    /\ lastOp = "ScreenshotDiscover"
    /\ ~inp.found
    /\ capture_client_only
    /\ frame # <<>>
    /\ shots[Len(shots)].region = {}
    /\ shots[Len(shots)].path = "full"
    /\ last_origin = <<0, 0>>

\* no window matches: focus() is False
C28_WitnessFocus ==
    /\ lastOp = "Focus"
    /\ ~inp.found
    /\ out = <<"False">>

\* the window is there, bringing it to the front fails and so does the
\* minimize/restore trick: focus() is False
C28_WitnessCaught ==
    /\ lastOp = "Focus"
    /\ inp.found
    /\ {"foreground", "minimize"} \subseteq inp.fails
    /\ out = <<"False">>

----------------------------------------------------------------------------
(* Window lookup of SteamController (steam.py)                              *)

\* the most windows the lookups by process name find, one hint after another
MaxProcWindows == 2

\* SteamController.window_title; stands for "Umamusume"
steam_window_title == <<"R", "i">>

\* the window class of the game; stands for "UmamusumePretty"
game_class == <<"R", "i", "-">>

\* titles: none, the target, part of the target, one that holds the target
\* in another case, an unrelated one
SteamTitles == {<<>>, <<"R", "i">>, <<"r">>, <<"-", "r", "I">>, <<"-">>}

\* window classes: none, the game's, an unrelated one
SteamClasses == {<<>>, game_class, <<"-">>}

SteamWindows == [title : SteamTitles, wm_class : SteamClasses]

\* what get_windows_with_title() and get_all_windows() return
SteamLists == UNION { [1..n -> SteamWindows] : n \in 0..1 }

\* the windows find_window_by_process_name() returns for the hints of line 62,
\* in the order of the hints; a hint that finds none or raises adds nothing
ProcLists == UNION { [1..n -> SteamWindows] : n \in 0..MaxProcWindows }

\* SteamController._find_window() 41-75; <<>> is None
steam_find_window(win_list, wins, procs) ==
    LET is_exact(w) == strip(w.title) = steam_window_title
        verified(w) == \/ contains(lower(w.title), lower(steam_window_title))
                       \/ contains(lower(steam_window_title), lower(w.title))
        exact_list  == SelectSeq(win_list, is_exact)
        exact       == SelectSeq(wins, is_exact)
        by_process  == SelectSeq(procs, verified)
    IN  IF win_list # <<>> THEN
            IF exact_list # <<>> THEN <<exact_list[1]>> ELSE <<win_list[1]>>
        ELSE IF exact # <<>> THEN <<exact[1]>>
        ELSE IF by_process # <<>> THEN <<by_process[1]>>
        ELSE <<>>

InitSteam ==
    /\ LoopIdle
    /\ CycleIdle
    /\ SelectIdle
    /\ CtrlIdle
    /\ AdbIdle
    /\ MirrorIdle
    /\ LockIdle
    /\ inp \in [win_list : SteamLists, wins : SteamLists, procs : ProcLists]
    /\ out = <<>>

ApplySteamFind ==
    /\ out = <<>>
    /\ out' = <<steam_find_window(inp.win_list, inp.wins, inp.procs)>>
    /\ lastOp' = "ApplySteamFind"
    /\ inp' = inp
    /\ UNCHANGED outsidePure

NextSteam == ApplySteamFind

SpecSteam == InitSteam /\ [][NextSteam]_vars

\* the lookup by title and the enumeration found nothing
OnlyProcessLeft ==
    /\ inp.win_list = <<>>
    /\ \A i \in 1..Len(inp.wins) : strip(inp.wins[i].title) # steam_window_title

\* C29: when the lookup by title and the enumeration find nothing,
\* _find_window() returns a window found by process name only if it matches
\* the target: one with an empty title and an empty class is ignored (None
\* when there is no other), one with an empty title and the class of the game
\* is returned
C29_ProcessWindowMustMatch ==
    lastOp = "ApplySteamFind" /\ OnlyProcessLeft =>
        /\ out[1] # <<>> => ~(out[1][1].title = <<>> /\ out[1][1].wm_class = <<>>)
        /\ inp.procs # <<>> /\ inp.procs[1] = [title |-> <<>>, wm_class |-> game_class]
              => out[1] = <<inp.procs[1]>>

----------------------------------------------------------------------------
(* The flow boundaries: what becomes of an exception raised inside them     *)
(* (agent_career_loop.py, career_nav_flow.py, support_select_flow.py)       *)

\* a call made inside a boundary: what a True and a False from it lead to
\* ("go" on to the next call, or "ret" that value), and whether it can raise
\* an Exception (the helpers that catch their own cannot)
Call(callee, on_true, on_false, raises) ==
    [callee |-> callee, on_true |-> on_true, on_false |-> on_false, raises |-> raises]

\* the calls of each boundary in the order of the source, a loop body once
BoundaryCalls ==
    [navigate_to_career_from_menu |->
        <<Call("waiter.click_when", "go", "ret", TRUE),
          Call("waiter.click_when", "go", "ret", TRUE)>>,
     handle_setup_screen |->
        <<Call("_extract_career_step", "go", "go", FALSE),
          Call("_click_next_button", "ret", "ret", FALSE)>>,
     select_optimal_support |->
        <<Call("_open_support_popup", "go", "ret", FALSE),
          Call("_scan_support_cards", "go", "go", FALSE),
          Call("_find_optimal_support", "go", "go", TRUE),
          Call("_refresh_support_list", "go", "go", FALSE),
          Call("_scan_support_cards", "go", "ret", FALSE),
          Call("_select_support_card", "ret", "ret", FALSE)>>,
     _confirm_career_start |->
        <<Call("waiter.click_when", "go", "ret", TRUE),
          Call("yolo_engine.recognize", "go", "go", TRUE),
          Call("ocr.text", "go", "go", TRUE),
          Call("_handle_tp_restoration", "go", "go", FALSE),
          Call("waiter.click_when", "go", "go", TRUE),
          Call("waiter.click_when", "go", "ret", TRUE)>>,
     _handle_career_completion |->
        <<Call("waiter.seen", "go", "ret", TRUE),
          Call("waiter.click_when", "go", "ret", TRUE),
          Call("waiter.click_when", "go", "go", TRUE),
          Call("yolo_engine.recognize", "ret", "go", TRUE),
          Call("waiter.click_when", "go", "go", TRUE)>>,
     _execute_career_cycle |->
        <<Call("_check_if_in_career", "ret", "go", FALSE),
          Call("_handle_career_completion", "ret", "go", FALSE),
          Call("navigate_to_career_from_menu", "go", "ret", FALSE),
          Call("yolo_engine.recognize", "go", "go", TRUE),
          Call("handle_setup_screen", "go", "go", FALSE),
          Call("select_optimal_support", "go", "ret", FALSE),
          Call("_confirm_career_start", "go", "ret", FALSE),
          Call("_handle_career_start_skip", "go", "go", FALSE),
          Call("agent_scenario.run", "go", "go", TRUE),
          Call("_handle_career_completion", "go", "ret", FALSE)>>]

Boundaries == DOMAIN BoundaryCalls

\* what a boundary returns when its last call is behind it: the completion
\* loop ran out (636-640), everywhere else the flow is through
ReturnAtEnd(b) == IF b = "_handle_career_completion" THEN "False" ELSE "True"

\* a handler that catches nothing
caught_Nothing(oc) == FALSE

\* except Exception: catches an Exception, not a KeyboardInterrupt
caught(oc) == oc = "exception"

\* what a call can do
CallOutcomes(c) ==
    {"true", "false", "interrupt"} \cup (IF c.raises THEN {"exception"} ELSE {})

\* the boundary after its call c ended with oc: "go" when it goes on, else what it
\* returns or what leaves it
after_call(c, oc) ==
    CASE oc = "true" -> IF c.on_true = "ret" THEN "True" ELSE "go"
      [] oc = "false" -> IF c.on_false = "ret" THEN "False" ELSE "go"
      [] caught(oc) -> "False"
      [] OTHER -> IF oc = "interrupt" THEN "KeyboardInterrupt" ELSE "Exception"

InitBoundary ==
    /\ LoopIdle
    /\ CycleIdle
    /\ SelectIdle
    /\ CtrlIdle
    /\ AdbIdle
    /\ MirrorIdle
    /\ LockIdle
    /\ inp \in [boundary : Boundaries, seen : {<<>>}]
    /\ out = <<>>

\* the next call of the boundary
BoundaryCall ==
    /\ out = <<>>
    /\ Len(inp.seen) < Len(BoundaryCalls[inp.boundary])
    /\ LET c == BoundaryCalls[inp.boundary][Len(inp.seen) + 1]
       IN  \E oc \in CallOutcomes(c) :
              /\ inp' = [inp EXCEPT !.seen = Append(@, oc)]
              /\ out' = IF after_call(c, oc) = "go" THEN <<>> ELSE <<after_call(c, oc)>>
    /\ lastOp' = "BoundaryCall"
    /\ UNCHANGED outsidePure

\* the return after the last call
BoundaryEnd ==
    /\ out = <<>>
    /\ Len(inp.seen) = Len(BoundaryCalls[inp.boundary])
    /\ out' = <<ReturnAtEnd(inp.boundary)>>
    /\ inp' = inp
    /\ lastOp' = "BoundaryEnd"
    /\ UNCHANGED outsidePure

NextBoundary == BoundaryCall \/ BoundaryEnd

SpecBoundary == InitBoundary /\ [][NextBoundary]_vars

\* C30: an exception other than an interrupt raised by the waiter, the
\* perception, the controller or the training agent inside a flow boundary
\* makes the boundary return False; none leaves the boundary
C30_ExceptionBecomesFalse ==
    lastOp \in {"BoundaryCall", "BoundaryEnd"} /\ out # <<>> =>
        /\ out[1] # "Exception"
        /\ inp.seen # <<>> /\ inp.seen[Len(inp.seen)] = "exception" /\ lastOp = "BoundaryCall"
              => out[1] = "False"
        /\ out[1] = "KeyboardInterrupt" => inp.seen[Len(inp.seen)] = "interrupt"

\* the training agent raises in the middle of a cycle: the cycle returns False
C30_Witness ==
    /\ inp.boundary = "_execute_career_cycle"
    /\ Len(inp.seen) = 9
    /\ inp.seen[9] = "exception"
    /\ out = <<"False">>

\* the waiter raises on the second click of the confirmation
C30_WitnessConfirm ==
    /\ inp.boundary = "_confirm_career_start"
    /\ Len(inp.seen) = 6
    /\ inp.seen[6] = "exception"
    /\ out = <<"False">>

\* an interrupt leaves the boundary
C30_WitnessInterrupt ==
    /\ inp.boundary = "navigate_to_career_from_menu"
    /\ out = <<"KeyboardInterrupt">>

----------------------------------------------------------------------------
(* One scan of the support popup: _scan_support_cards() and                 *)
(* _extract_card_info() (support_select_flow.py)                            *)

\* the most containers a scan detects
MaxContainers == 2

\* 389: the name given to a card whose name could not be read
unknown_name == <<"U", "n", "k", "n", "o", "w", "n">>

\* 382: the level given to a card whose level could not be read
default_level == 1

\* 375: the highest level a card can have
max_level == 50

\* what self.ocr.digits() can return
DigitValues == {-1, 0, 1, 30, 50, 51}

\* what self.ocr.text() can return
TextValues == {<<>>, <<" ">>, <<"R", "i">>, <<" ", "R", "i", " ">>}

\* the level label of a container: not detected, or detected and read by
\* ocr.digits(), which raises or returns a number
LevelReads ==
    {[det |-> FALSE, raises |-> FALSE, value |-> -1],
     [det |-> TRUE, raises |-> TRUE, value |-> -1]}
        \cup [det : {TRUE}, raises : {FALSE}, value : DigitValues]

\* the name label of a container, likewise with ocr.text()
NameReads ==
    {[det |-> FALSE, raises |-> FALSE, value |-> <<>>],
     [det |-> TRUE, raises |-> TRUE, value |-> <<>>]}
        \cup [det : {TRUE}, raises : {FALSE}, value : TextValues]

Containers == [level : LevelReads, name : NameReads]

\* 375-382 that keeps the level as it was read
valid_level_AsRead(level) == level

\* 375-382
valid_level(level) == IF level <= 0 \/ level > max_level THEN default_level ELSE level

\* 372 and 384-389: .strip(), then the default for an empty name
valid_name(name) == IF strip(name) = <<>> THEN unknown_name ELSE strip(name)

\* _extract_card_info() 322-411; {} is None
extract_card_info(ocr, c, index) ==
    IF ~ocr THEN {}
    ELSE IF (c.level.det /\ c.level.raises) \/ (c.name.det /\ c.name.raises) THEN {}
    ELSE {[name |-> valid_name(IF c.name.det THEN c.name.value ELSE <<>>),
           level |-> valid_level(IF c.level.det THEN c.level.value ELSE -1),
           index |-> index]}

RECURSIVE cards_from(_, _, _)
\* 291-304: the cards of the containers from the i-th on
cards_from(ocr, containers, i) ==
    IF i > Len(containers) THEN <<>>
    ELSE LET card == extract_card_info(ocr, containers[i], i)
         IN  (IF card = {} THEN <<>> ELSE <<CHOOSE c \in card : TRUE>>)
                 \o cards_from(ocr, containers, i + 1)

\* _scan_support_cards() 253-320: recognized is FALSE when yolo_engine.recognize() raises
scan_support_cards(recognized, ocr, containers) ==
    IF ~recognized THEN <<>> ELSE cards_from(ocr, containers, 1)

InitScan ==
    /\ LoopIdle
    /\ CycleIdle
    /\ SelectIdle
    /\ CtrlIdle
    /\ AdbIdle
    /\ MirrorIdle
    /\ LockIdle
    /\ inp \in [recognized : BOOLEAN, ocr : BOOLEAN,
                containers : UNION { [1..n -> Containers] : n \in 0..MaxContainers }]
    /\ out = <<>>

ApplyScan ==
    /\ out = <<>>
    /\ out' = <<scan_support_cards(inp.recognized, inp.ocr, inp.containers)>>
    /\ lastOp' = "ApplyScan"
    /\ inp' = inp
    /\ UNCHANGED outsidePure

NextScan == ApplyScan

SpecScan == InitScan /\ [][NextScan]_vars

\* the OCR is missing, or its call on a label of the i-th container raises
OcrFails(i) ==
    \/ ~inp.ocr
    \/ inp.containers[i].level.det /\ inp.containers[i].level.raises
    \/ inp.containers[i].name.det /\ inp.containers[i].name.raises

\* C31: when the OCR is unavailable or its digits/text call raises while a
\* card is scanned, the failure counts as empty OCR output: the scan still
\* yields a card for that container, with level 1 and/or the name Unknown
C31_OcrFailureKeepsCard ==
    lastOp = "ApplyScan" /\ inp.recognized =>
        \A i \in 1..Len(inp.containers) :
            OcrFails(i) =>
                \E k \in 1..Len(out[1]) :
                    /\ out[1][k].index = i
                    /\ out[1][k].level = default_level \/ out[1][k].name = unknown_name

\* C35: every card a scan produces has 1 <= level <= 50 and a name that is
\* not empty; a level read outside 1..50 or a missing level label gives 1, an
\* empty or missing name gives Unknown
C35_CardsAreValid ==
    lastOp = "ApplyScan" =>
        \A k \in 1..Len(out[1]) :
            LET card == out[1][k]
                c == inp.containers[card.index]
            IN  /\ 1 <= card.level /\ card.level <= 50
                /\ card.name # <<>>
                /\ (~c.level.det \/ c.level.value < 1 \/ c.level.value > 50) => card.level = 1
                /\ (~c.name.det \/ strip(c.name.value) = <<>>) => card.name = unknown_name

\* a scan of two containers: a level of 51 with a blank name, and no labels at all
C35_Witness ==
    /\ lastOp = "ApplyScan"
    /\ Len(out[1]) = 2
    /\ inp.containers[1].level.value = 51
    /\ inp.containers[1].name.value = <<" ">>
    /\ ~inp.containers[2].level.det /\ ~inp.containers[2].name.det
    /\ \A k \in 1..2 : out[1][k].level = 1 /\ out[1][k].name = unknown_name

\* a level and a name that were read well are kept
C35_WitnessKept ==
    /\ lastOp = "ApplyScan"
    /\ Len(out[1]) = 1
    /\ out[1][1].level = 30
    /\ out[1][1].name = <<"R", "i">>
    /\ inp.containers[1].name.value = <<" ", "R", "i", " ">>

----------------------------------------------------------------------------
(* _confirm_career_start() (agent_career_loop.py 130-229)                   *)

\* what a call of waiter.click_when() does: it clicks and returns True, finds
\* nothing and returns False, or raises
ClickOutcomes == {"true", "false", "exception"}

\* _confirm_career_start() 147-229: ret is what it returns, confirms the
\* outcomes of the calls of click_when() with the tag career_start_confirm_2
\* in the order they were made
confirm_career_start(first, recognized, restore_needed, second, third) ==
    IF first = "exception" THEN [ret |-> FALSE, confirms |-> <<>>]
    ELSE IF first = "false" THEN [ret |-> FALSE, confirms |-> <<>>]
    ELSE IF ~recognized THEN [ret |-> FALSE, confirms |-> <<>>]
    ELSE IF second = "exception" THEN [ret |-> FALSE, confirms |-> <<second>>]
    ELSE IF third = "exception" THEN [ret |-> FALSE, confirms |-> <<second, third>>]
    ELSE [ret |-> third = "true", confirms |-> <<second, third>>]

InitConfirm ==
    /\ LoopIdle
    /\ CycleIdle
    /\ SelectIdle
    /\ CtrlIdle
    /\ AdbIdle
    /\ MirrorIdle
    /\ LockIdle
    /\ inp \in [first : ClickOutcomes, recognized : BOOLEAN, restore_needed : BOOLEAN,
                restored : BOOLEAN, second : ClickOutcomes, third : ClickOutcomes]
    /\ out = <<>>

ApplyConfirm ==
    /\ out = <<>>
    /\ out' = <<confirm_career_start(inp.first, inp.recognized, inp.restore_needed,
                                     inp.second, inp.third)>>
    /\ lastOp' = "ApplyConfirm"
    /\ inp' = inp
    /\ UNCHANGED outsidePure

NextConfirm == ApplyConfirm

SpecConfirm == InitConfirm /\ [][NextConfirm]_vars

\* C34: after a first click that succeeds, _confirm_career_start() makes
\* exactly one confirmation click, and returns True whenever the first click
\* and that confirmation click succeed, whether or not a restoration in
\* between failed; after a first click that fails it returns False and makes
\* no confirmation click
C34_DoubleClick ==
    lastOp = "ApplyConfirm" =>
        LET clicked == {i \in 1..Len(out[1].confirms) : out[1].confirms[i] = "true"}
        IN  /\ inp.first = "false" => ~out[1].ret /\ out[1].confirms = <<>>
            /\ Cardinality(clicked) <= 1
            /\ inp.first = "true" /\ out[1].confirms # <<>> /\ out[1].confirms[1] = "true"
                  => out[1].ret

----------------------------------------------------------------------------
(* ScrcpyADBController statement by statement: the main thread in           *)
(* screenshot() and stop(), the watchdog thread in _watchdog_loop() and     *)
(* _init_scrcpy(), the client's thread in _on_frame(), with                 *)
(* self._client_lock and self._frame_lock (scrcpy_adb.py)                   *)

\* what no step of these threads changes
lockRest == <<state, loopRest, cycleVars, selectVars, pureVars, adbVars,
              kind, capture_client_only, last_origin, last_bbox, screen_size, envClient,
              envScreen, frame, shots, stale, frameOld, mshot>>

\* a lock that every thread takes at once
can_acquire_Always(lock) == TRUE

\* with self._client_lock: / with self._frame_lock: entered only when the lock is free
can_acquire(lock) == lock = "free"

\* an access to the frame slot, or an I/O call, by thread who
Access(who, what) == [who |-> who, what |-> what, holds |-> frame_lock = who]

\* the controller after __init__ (27-66): _init_scrcpy() has run once on the
\* main thread and the watchdog thread starts
InitLock ==
    /\ LoopIdle
    /\ CycleIdle
    /\ SelectIdle
    /\ PureIdle
    /\ AdbIdle
    /\ kind = "scrcpy_adb"
    /\ capture_client_only = FALSE
    /\ last_origin = <<>>
    /\ last_bbox = <<>>
    /\ envScreen = <<100, 80>>
    /\ screen_size = envScreen
    /\ envClient = {}
    /\ last_frame = {}
    /\ frame = <<>>
    /\ shots = <<>>
    /\ running = TRUE
    /\ death_counter = 0
    /\ has_client \in BOOLEAN
    /\ scrcpy_active = has_client
    /\ delivering = has_client
    /\ created = IF has_client THEN 1 ELSE 0
    /\ stale = FALSE
    /\ wpc = "w_loop"
    /\ restarts = 0
    /\ frameOld = FALSE
    /\ mshot = NoShot
    /\ mpc = "run"
    /\ fpc = "idle"
    /\ client_lock = "free"
    /\ frame_lock = "free"
    /\ access = NoAccess

\* screenshot() 402-425 on the main thread
LockScreenshot ==
    /\ mpc \in {"run", "shot_lock", "shot_read", "shot_unlock", "shot_bridge"}
    /\ IF mpc = "run" THEN
           /\ mpc' = IF scrcpy_active THEN "shot_lock" ELSE "shot_bridge"
           /\ UNCHANGED <<frame_lock, access>>
       ELSE IF mpc = "shot_lock" THEN
           /\ can_acquire(frame_lock)
           /\ frame_lock' = "main"
           /\ mpc' = "shot_read"
           /\ UNCHANGED access
       ELSE IF mpc = "shot_read" THEN
           /\ access' = Access("main", "read_frame")
           /\ mpc' = "shot_unlock"
           /\ UNCHANGED frame_lock
       ELSE IF mpc = "shot_unlock" THEN
           /\ frame_lock' = "free"
           /\ mpc' = IF last_frame # {} THEN "run" ELSE "shot_bridge"
           /\ UNCHANGED access
       ELSE
           /\ access' = Access("main", "io")
           /\ mpc' = "run"
           /\ UNCHANGED frame_lock
    /\ lastOp' = "LockScreenshot"
    /\ UNCHANGED <<running, scrcpy_active, has_client, death_counter, delivering,
                   last_frame, restarts, wpc, fpc, client_lock, created>>
    /\ UNCHANGED lockRest

\* stop() 69-86 on the main thread
LockStop ==
    /\ mpc \in {"run", "stop_lock", "stop_client", "stop_mark", "stop_unlock",
                "stop_disconnect"}
    /\ IF mpc = "run" THEN
           /\ running
           /\ running' = FALSE
           /\ mpc' = "stop_lock"
           /\ UNCHANGED <<client_lock, scrcpy_active, delivering, access>>
       ELSE IF mpc = "stop_lock" THEN
           /\ can_acquire(client_lock)
           /\ client_lock' = "main"
           /\ mpc' = "stop_client"
           /\ UNCHANGED <<running, scrcpy_active, delivering, access>>
       ELSE IF mpc = "stop_client" THEN
           /\ delivering' = FALSE
           /\ access' = IF has_client THEN Access("main", "io") ELSE access
           /\ mpc' = "stop_mark"
           /\ UNCHANGED <<running, client_lock, scrcpy_active>>
       ELSE IF mpc = "stop_mark" THEN
           /\ scrcpy_active' = FALSE
           /\ mpc' = "stop_unlock"
           /\ UNCHANGED <<running, client_lock, delivering, access>>
       ELSE IF mpc = "stop_unlock" THEN
           /\ client_lock' = "free"
           /\ mpc' = "stop_disconnect"
           /\ UNCHANGED <<running, scrcpy_active, delivering, access>>
       ELSE
           /\ access' = Access("main", "io")
           /\ mpc' = "stopped"
           /\ UNCHANGED <<running, client_lock, scrcpy_active, delivering>>
    /\ lastOp' = "LockStop"
    /\ UNCHANGED <<has_client, death_counter, last_frame, restarts, wpc, fpc,
                   frame_lock, created>>
    /\ UNCHANGED lockRest

\* _on_frame() 124-128 on the client's thread
LockOnFrame ==
    /\ IF fpc = "idle" THEN
           /\ delivering
           /\ fpc' = "f_lock"
           /\ UNCHANGED <<frame_lock, last_frame, access>>
       ELSE IF fpc = "f_lock" THEN
           /\ can_acquire(frame_lock)
           /\ frame_lock' = "client"
           /\ fpc' = "f_write"
           /\ UNCHANGED <<last_frame, access>>
       ELSE IF fpc = "f_write" THEN
           /\ last_frame' = {envScreen}
           /\ access' = Access("client", "write_frame_and_time")
           /\ fpc' = "f_unlock"
           /\ UNCHANGED frame_lock
       ELSE
           /\ fpc = "f_unlock"
           /\ frame_lock' = "free"
           /\ fpc' = "idle"
           /\ UNCHANGED <<last_frame, access>>
    /\ lastOp' = "LockOnFrame"
    /\ UNCHANGED <<running, scrcpy_active, has_client, death_counter, delivering,
                   restarts, wpc, mpc, client_lock, created>>
    /\ UNCHANGED lockRest

\* _watchdog_loop() 170-185 but the call of _init_scrcpy()
LockWatchdog ==
    /\ wpc \in {"w_loop", "w_sleep", "w_gap", "w_mark", "w_count"}
    /\ IF wpc = "w_loop" THEN
           /\ wpc' = IF running THEN "w_sleep" ELSE "w_exit"
           /\ UNCHANGED <<scrcpy_active, death_counter, restarts, access>>
       ELSE IF wpc = "w_sleep" THEN
           /\ wpc' = IF scrcpy_active THEN "w_gap" ELSE "w_loop"
           /\ UNCHANGED <<scrcpy_active, death_counter, restarts, access>>
       ELSE IF wpc = "w_gap" THEN
           /\ access' = Access("watchdog", "read_time")
           /\ \E frozen \in BOOLEAN :
                wpc' = IF frozen /\ restarts < MaxRestarts THEN "w_mark" ELSE "w_loop"
           /\ UNCHANGED <<scrcpy_active, death_counter, restarts>>
       ELSE IF wpc = "w_mark" THEN
           /\ scrcpy_active' = FALSE
           /\ wpc' = "i_check"
           /\ UNCHANGED <<death_counter, restarts, access>>
       ELSE
           /\ death_counter' = death_counter + 1
           /\ restarts' = restarts + 1
           /\ wpc' = "w_loop"
           /\ UNCHANGED <<scrcpy_active, access>>
    /\ lastOp' = "LockWatchdog"
    /\ UNCHANGED <<running, has_client, delivering, last_frame, mpc, fpc, client_lock,
                   frame_lock, created>>
    /\ UNCHANGED lockRest

\* _init_scrcpy() 132-168 on the watchdog thread
LockInitScrcpy ==
    /\ wpc \in {"i_check", "i_lock", "i_stop", "i_create", "i_active", "i_time", "i_unlock"}
    /\ IF wpc = "i_check" THEN
           /\ wpc' = IF running THEN "i_lock" ELSE "w_count"
           /\ UNCHANGED <<client_lock, has_client, delivering, created, scrcpy_active,
                          death_counter, access>>
       ELSE IF wpc = "i_lock" THEN
           /\ can_acquire(client_lock)
           /\ client_lock' = "watchdog"
           /\ wpc' = "i_stop"
           /\ UNCHANGED <<has_client, delivering, created, scrcpy_active, death_counter,
                          access>>
       ELSE IF wpc = "i_stop" THEN
           /\ \E stopOk \in BOOLEAN :
                death_counter' = IF has_client /\ stopOk THEN 0 ELSE death_counter
           /\ delivering' = FALSE
           /\ access' = IF has_client THEN Access("watchdog", "io") ELSE access
           /\ wpc' = "i_create"
           /\ UNCHANGED <<client_lock, has_client, created, scrcpy_active>>
       ELSE IF wpc = "i_create" THEN
           /\ access' = Access("watchdog", "io")
           /\ \E startOk \in BOOLEAN :
                IF startOk THEN
                    /\ has_client' = TRUE
                    /\ delivering' = TRUE
                    /\ created' = created + 1
                    /\ scrcpy_active' = scrcpy_active
                    /\ wpc' = "i_active"
                ELSE
                    /\ scrcpy_active' = FALSE
                    /\ wpc' = "i_unlock"
                    /\ UNCHANGED <<has_client, delivering, created>>
           /\ UNCHANGED <<client_lock, death_counter>>
       ELSE IF wpc = "i_active" THEN
           /\ scrcpy_active' = TRUE
           /\ wpc' = "i_time"
           /\ UNCHANGED <<client_lock, has_client, delivering, created, death_counter,
                          access>>
       ELSE IF wpc = "i_time" THEN
           /\ access' = Access("watchdog", "write_time")
           /\ death_counter' = 0
           /\ wpc' = "i_unlock"
           /\ UNCHANGED <<client_lock, has_client, delivering, created, scrcpy_active>>
       ELSE
           /\ client_lock' = "free"
           /\ wpc' = "w_count"
           /\ UNCHANGED <<has_client, delivering, created, scrcpy_active, death_counter,
                          access>>
    /\ lastOp' = "LockInitScrcpy"
    /\ UNCHANGED <<running, last_frame, restarts, mpc, fpc, frame_lock>>
    /\ UNCHANGED lockRest

NextLock ==
    \/ LockScreenshot
    \/ LockStop
    \/ LockOnFrame
    \/ LockWatchdog
    \/ LockInitScrcpy

SpecLock == InitLock /\ [][NextLock]_vars

\* C32: every read and every write of the frame slot (_last_frame and
\* _last_frame_time), by the producer callback, the watchdog, the restart
\* routine and screenshot(), is made while the thread holds the frame lock,
\* and the frame lock is never held across an I/O call
C32_SlotUnderFrameLock ==
    access.what # "none" =>
        IF access.what = "io" THEN ~access.holds ELSE access.holds

\* the main thread is between the with and the end of its block in stop()
InStop == mpc \in {"stop_client", "stop_mark", "stop_unlock"}

\* the watchdog thread is between the with and the end of its block in _init_scrcpy()
InInit == wpc \in {"i_stop", "i_create", "i_active", "i_time", "i_unlock"}

C33_WitnessStop ==
    /\ mpc = "stop_client"
    /\ wpc = "i_lock"
    /\ client_lock = "main"

\* C39: after stop() has returned the stream stays stopped, whatever the
\* watchdog thread does: no client is created or started afterwards and
\* _scrcpy_active remains False
C39_StaysStopped ==
    [][mpc = "stopped" => (created' = created /\ ~scrcpy_active')]_vars

----------------------------------------------------------------------------
(* One attempt of the retry wrapper: _execute_career_cycle() step by step,  *)
(* then what _execute_career_cycle_with_recovery() does with its value      *)

\* _execute_career_cycle_with_recovery() 874-883: success = self._execute_career_cycle(),
\* and record_success() when it is True
CountCycle ==
    /\ cpc = "done"
    /\ cret \in {"true", "false"}
    /\ state' = IF cret = "true" THEN record_success(state) ELSE state
    /\ cpc' = "counted"
    /\ lastOp' = "CountCycle"
    /\ UNCHANGED <<cret, checkIn, checkRet, setup_screen_count, setupDetected,
                   navCalls, compFrom, clicks_count, homeSeen, compRet, agentLog>>
    /\ UNCHANGED outsideCycle

NextCount ==
    \/ NextCycle
    \/ CountCycle

SpecCount == InitCycle /\ [][NextCount]_vars

\* C36: total_careers_completed is incremented for a cycle only if
\* _handle_career_completion() returned True for that cycle; a cycle that
\* only resumed a career in progress and ran the agent is not counted
C36_CountedOnlyWhenCompleted ==
    (cpc = "counted" /\ state.total_careers_completed > 0) => compRet = "true"

----------------------------------------------------------------------------
(* The start of run(): a career found in progress                           *)

InitResume ==
    /\ LoopIdle
    /\ cpc = "startup"
    /\ cret = "none"
    /\ checkIn = NoCheck
    /\ checkRet = "none"
    /\ setup_screen_count = 0
    /\ setupDetected = FALSE
    /\ navCalls = 0
    /\ compFrom = "none"
    /\ clicks_count = 0
    /\ homeSeen = FALSE
    /\ compRet = "none"
    /\ agentLog = <<>>
    /\ SelectIdle
    /\ PureIdle
    /\ DeviceIdle

\* run() 1045-1046: if self._check_if_in_career()
ResumeCheck ==
    /\ cpc = "startup"
    /\ \E in \in CheckInputs :
         LET oc == check_if_in_career(in)
             r == check_if_in_career_result(oc)
         IN  /\ checkIn' = in
             /\ checkRet' = r
             /\ state' = check_if_in_career_state(state, oc)
             /\ agentLog' = agentLog \o check_if_in_career_agent(oc)
             /\ cpc' = IF r = "true" THEN "existing" ELSE "left"
    /\ lastOp' = "ResumeCheck"
    /\ UNCHANGED <<cret, setup_screen_count, setupDetected, navCalls, compFrom,
                   clicks_count, homeSeen, compRet>>
    /\ UNCHANGED outsideCycle

\* run() 1052-1057 and 1073-1080: is_running = True and self.agent_scenario.run()
ResumeRun ==
    /\ cpc = "existing"
    /\ agentLog' = Append(agentLog, "run")
    /\ \E oc \in {"returns", "exception", "interrupt"} :
         IF oc = "returns" THEN
             /\ state' = [state EXCEPT !.is_running = TRUE]
             /\ cpc' = "completion"
         ELSE
             /\ state' = existing_career_state(state, oc)
             /\ cpc' = "left"
    /\ lastOp' = "ResumeRun"
    /\ UNCHANGED <<cret, checkIn, checkRet, setup_screen_count, setupDetected,
                   navCalls, compFrom, clicks_count, homeSeen, compRet>>
    /\ UNCHANGED outsideCycle

\* run() 1063-1071: if self._handle_career_completion()
ResumeCompletion ==
    /\ cpc = "completion"
    /\ \E oc \in {"completed", "completion_failed"} :
         /\ state' = existing_career_state(state, oc)
         /\ compRet' = IF oc = "completed" THEN "true" ELSE "false"
    /\ compFrom' = "startup"
    /\ cpc' = "left"
    /\ lastOp' = "ResumeCompletion"
    /\ UNCHANGED <<cret, checkIn, checkRet, setup_screen_count, setupDetected,
                   navCalls, clicks_count, homeSeen, agentLog>>
    /\ UNCHANGED outsideCycle

NextResume ==
    \/ ResumeCheck
    \/ ResumeRun
    \/ ResumeCompletion

SpecResume == InitResume /\ [][NextResume]_vars

\* C37: when run() finds a career in progress at startup, the agent's run()
\* is invoked exactly once for it before completion handling is attempted,
\* and that invocation follows the reset of the agent's per-career state
C37_AgentRunsOnceAfterReset ==
    cpc = "completion" => agentLog = <<"reset", "run">>

----------------------------------------------------------------------------
(* The abort flag and the retry wrapper                                     *)

\* C38: once the abort flag was raised during an attempt that then failed,
\* _execute_career_cycle_with_recovery() sees it at its next checkpoint and
\* starts no further attempt
C38_NoAttemptAfterAbort ==
    [][(abort /\ lastOp = "Attempt" /\ pc = "recovery") => pc' # "attempt"]_vars

----------------------------------------------------------------------------
(* SteamController.scroll() (steam.py 170-197)                              *)

MaxDelta == 9

MaxWheelSteps == 4

WheelDeltas == (0 - MaxDelta)..MaxDelta

WheelSteps == (0 - 1)..MaxWheelSteps

\* a loop that runs steps times, whatever steps is
total_steps_AsGiven(steps) == Max2(0, steps)

\* 190: total_steps = max(1, int(steps))
total_steps(steps) == Max2(1, steps)

\* 193-195: remaining // divisor (the floor, as \div for a positive divisor),
\* and one unit towards zero when that is 0 and something remains
chunk_of(remaining, divisor) ==
    LET c == IF divisor # 0 THEN remaining \div divisor ELSE remaining
    IN  IF c = 0 /\ remaining # 0
        THEN (IF remaining > 0 THEN 1 ELSE 0 - 1)
        ELSE c

RECURSIVE scroll_from(_, _, _)
\* 191-197: the passes i, i + 1, ... of the for loop, as the arguments given to pyautogui.scroll()
scroll_from(i, total, remaining) ==
    IF i >= total THEN <<>>
    ELSE LET chunk == chunk_of(remaining, total - i)
         IN  <<chunk>> \o scroll_from(i + 1, total, remaining - chunk)

\* scroll(delta, steps=steps): the wheel calls it makes
scroll(delta, steps) == scroll_from(0, total_steps(steps), delta)

RECURSIVE SumSeq(_)
SumSeq(q) == IF q = <<>> THEN 0 ELSE Head(q) + SumSeq(Tail(q))

InitWheel ==
    /\ LoopIdle
    /\ CycleIdle
    /\ SelectIdle
    /\ CtrlIdle
    /\ AdbIdle
    /\ MirrorIdle
    /\ LockIdle
    /\ inp \in [delta : WheelDeltas, steps : WheelSteps]
    /\ out = <<>>

ApplyWheel ==
    /\ out = <<>>
    /\ out' = <<scroll(inp.delta, inp.steps)>>
    /\ lastOp' = "ApplyWheel"
    /\ inp' = inp
    /\ UNCHANGED outsidePure

NextWheel == ApplyWheel

SpecWheel == InitWheel /\ [][NextWheel]_vars

\* C40: scroll(delta, steps) makes exactly max(1, steps) wheel calls, their
\* chunks add up to delta exactly, and none has the sign opposite to delta's
C40_ChunksSumToDelta ==
    out # <<>> =>
        LET chunks == out[1]
        IN  /\ Len(chunks) = Max2(1, inp.steps)
            /\ SumSeq(chunks) = inp.delta
            /\ \A i \in 1..Len(chunks) :
                 /\ inp.delta >= 0 => chunks[i] >= 0
                 /\ inp.delta <= 0 => chunks[i] <= 0

\* a negative delta split over more than one call with a remainder
C40_Witness ==
    /\ out # <<>>
    /\ inp.delta = 0 - 4
    /\ inp.steps = 3
    /\ out[1] = <<0 - 2, 0 - 1, 0 - 1>>

\* fewer units than calls: the first call takes one unit, the others none
C40_WitnessSmall ==
    /\ out # <<>>
    /\ inp.delta = 1
    /\ inp.steps = 3
    /\ out[1] = <<1, 0, 0>>

\* steps below one still makes one call, of the whole delta
C40_WitnessNoSteps ==
    /\ out # <<>>
    /\ inp.steps = 0
    /\ inp.delta = 5
    /\ out[1] = <<5>>

====
